---- MODULE Spec2Model ----
(***************************************************************************)
(* Remediation guard and attempt ledger of scripts/autofix_workflow.py.    *)
(*                                                                         *)
(* Time is counted in whole seconds since an arbitrary origin.  A stored   *)
(* timestamp is the text datetime.isoformat() wrote, or any other JSON     *)
(* value found in the file; it is modelled as a record [kind, val] where   *)
(* kind says what fromisoformat() makes of it.                             *)
(***************************************************************************)
EXTENDS Integers, Sequences, FiniteSets, TLC

VARIABLES
    file,       \* .github/fix_attempts.json: [state, doc]
    now,        \* wall clock, seconds
    last,       \* observation of the most recent apply_fix call
    procs,      \* apply_fix invocations running as separate processes
    log,        \* the log text handed to categorize_failure
    diagnosis,  \* what categorize_failure returned for it
    sweep       \* one run of the diagnosis CLI and the gh answers it gets

vars == <<file, now, last, procs, log, diagnosis, sweep>>

-----------------------------------------------------------------------------
(* Policy constants                                                        *)

MAX_FIX_ATTEMPTS_PER_HOUR == 3
COOLDOWN_MINUTES_before == 30   \* "Increased from 30"
COOLDOWN_MINUTES == 60
API_QUOTA_WAIT_MINUTES == 120
RETRY_DELAY_MINUTES == 10
SecondsPerMinute == 60
OneHourSeconds == 3600
KeepLast == 50

-----------------------------------------------------------------------------
(* Bounds of the model                                                     *)

MaxNowMinutes == 61       \* the clock stops advancing past this
MaxHist == 3              \* longest history in a ledger file found on disk
MaxAppends == 60          \* appends in a row in SpecLedger
MaxSpacingMinutes == 200  \* the clock of SpecSpacing stops advancing past this

Jobs == {"nba-news.yml"}

\* a second workflow of the repository, whose history shares the file
OtherJob == "trade-watcher.yml"

Listed == {"permission_denied", "api_quota", "empty_response", "missing_secret",
           "encoding_error", "git_conflict", "workflow_config", "unknown"}

\* apply_fix takes any string; "timeout" stands for every failure type
\* that has no entry in FIX_STRATEGIES.
FailureTypes == Listed \cup {"timeout"}

-----------------------------------------------------------------------------
(* Timestamps as stored in the JSON document                               *)

Null == [kind |-> "null", val |-> 0]            \* JSON null / Python None
Garbage == [kind |-> "garbage", val |-> 0]      \* anything fromisoformat rejects

\* datetime.isoformat()
isoformat(t) == [kind |-> "iso", val |-> t]

\* datetime.fromisoformat(): raises on anything that is not ISO text
fromisoformat(s) ==
    IF s.kind = "iso" THEN [raised |-> FALSE, val |-> s.val]
                      ELSE [raised |-> TRUE, val |-> 0]

\* Python truthiness of a stored last_attempt ("if not last_attempt_str")
Falsy(s) == s.kind = "null"

\* the minutes rounded up instead of truncated
WholeMinutes_rounded_up(secs) == (secs + SecondsPerMinute - 1) \div SecondsPerMinute

\* int(x / 60) for seconds x >= 0
WholeMinutes(secs) == secs \div SecondsPerMinute

-----------------------------------------------------------------------------
(* Ledger file                                                             *)

EmptyDoc == [w \in {} |-> 0]

AbsentFile == [state |-> "absent", doc |-> EmptyDoc]

\* load_fix_attempts(): {} when the file is absent or json.load fails
load_fix_attempts(f) ==
    IF f.state = "ok" THEN f.doc ELSE EmptyDoc

\* save_fix_attempts() when makedirs, open and json.dump all succeed
save_fix_attempts(attempts) == [state |-> "ok", doc |-> attempts]

-----------------------------------------------------------------------------
(* Guard                                                                   *)

NoReason == [kind |-> "none", n |-> 0, limit |-> 0]

Admit == [can_fix |-> TRUE, reason |-> NoReason]

\* check_cooldown with the window closed at its end (<= for <)
check_cooldown_inclusive(workflow_name, attempts, t) ==
    IF workflow_name \notin DOMAIN attempts THEN Admit
    ELSE LET last_attempt_str == attempts[workflow_name].last_attempt
             last_attempt == fromisoformat(last_attempt_str)
             cooldown_until == last_attempt.val + COOLDOWN_MINUTES * SecondsPerMinute
         IN  IF Falsy(last_attempt_str) THEN Admit
             ELSE IF last_attempt.raised THEN Admit
             ELSE IF t <= cooldown_until
                  THEN [can_fix |-> FALSE,
                        reason |-> [kind |-> "cooldown",
                                    n |-> WholeMinutes(cooldown_until - t),
                                    limit |-> COOLDOWN_MINUTES]]
                  ELSE Admit

\* check_cooldown(workflow_name, attempts), with datetime.now() = t
check_cooldown(workflow_name, attempts, t) ==
    IF workflow_name \notin DOMAIN attempts THEN Admit
    ELSE LET last_attempt_str == attempts[workflow_name].last_attempt
             last_attempt == fromisoformat(last_attempt_str)
             cooldown_until == last_attempt.val + COOLDOWN_MINUTES * SecondsPerMinute
         IN  IF Falsy(last_attempt_str) THEN Admit
             ELSE IF last_attempt.raised THEN Admit        \* except Exception
             ELSE IF t < cooldown_until
                  THEN [can_fix |-> FALSE,
                        reason |-> [kind |-> "cooldown",
                                    n |-> WholeMinutes(cooldown_until - t),
                                    limit |-> COOLDOWN_MINUTES]]
                  ELSE Admit

\* the indices of the list comprehension's result in check_rate_limit
RecentIndices(recent_attempts, t) ==
    LET one_hour_ago == t - OneHourSeconds
    IN  {i \in 1..Len(recent_attempts) :
            fromisoformat(recent_attempts[i].timestamp).val > one_hour_ago}

\* check_rate_limit comparing with > where the code has >=
check_rate_limit_strict(workflow_name, attempts, t) ==
    IF workflow_name \notin DOMAIN attempts
    THEN [raised |-> FALSE, can_fix |-> TRUE, reason |-> NoReason]
    ELSE LET recent_attempts == attempts[workflow_name].attempts
             recent == RecentIndices(recent_attempts, t)
         IN  IF \E i \in 1..Len(recent_attempts) :
                    fromisoformat(recent_attempts[i].timestamp).raised
             THEN [raised |-> TRUE, can_fix |-> FALSE, reason |-> NoReason]
             ELSE IF Cardinality(recent) > MAX_FIX_ATTEMPTS_PER_HOUR
             THEN [raised |-> FALSE, can_fix |-> FALSE,
                   reason |-> [kind |-> "rate_limit",
                               n |-> Cardinality(recent),
                               limit |-> MAX_FIX_ATTEMPTS_PER_HOUR]]
             ELSE [raised |-> FALSE, can_fix |-> TRUE, reason |-> NoReason]

\* a rate limit shared by the repository: the attempts of every workflow
\* in the ledger count
check_rate_limit_all_jobs(workflow_name, attempts, t) ==
    LET recent(w) == RecentIndices(attempts[w].attempts, t)
        total == Cardinality({<<w, i>> \in (DOMAIN attempts) \X (1..KeepLast) :
                                 i \in recent(w)})
    IN  IF \E w \in DOMAIN attempts : \E i \in 1..Len(attempts[w].attempts) :
               fromisoformat(attempts[w].attempts[i].timestamp).raised
        THEN [raised |-> TRUE, can_fix |-> FALSE, reason |-> NoReason]
        ELSE IF total >= MAX_FIX_ATTEMPTS_PER_HOUR
        THEN [raised |-> FALSE, can_fix |-> FALSE,
              reason |-> [kind |-> "rate_limit", n |-> total,
                          limit |-> MAX_FIX_ATTEMPTS_PER_HOUR]]
        ELSE [raised |-> FALSE, can_fix |-> TRUE, reason |-> NoReason]

\* check_rate_limit(workflow_name, attempts), with datetime.now() = t.
\* There is no try/except here: a timestamp fromisoformat rejects raises
\* out of the function.
check_rate_limit(workflow_name, attempts, t) ==
    IF workflow_name \notin DOMAIN attempts
    THEN [raised |-> FALSE, can_fix |-> TRUE, reason |-> NoReason]
    ELSE LET recent_attempts == attempts[workflow_name].attempts
             recent == RecentIndices(recent_attempts, t)
         IN  IF \E i \in 1..Len(recent_attempts) :
                    fromisoformat(recent_attempts[i].timestamp).raised
             THEN [raised |-> TRUE, can_fix |-> FALSE, reason |-> NoReason]
             ELSE IF Cardinality(recent) >= MAX_FIX_ATTEMPTS_PER_HOUR
             THEN [raised |-> FALSE, can_fix |-> FALSE,
                   reason |-> [kind |-> "rate_limit",
                               n |-> Cardinality(recent),
                               limit |-> MAX_FIX_ATTEMPTS_PER_HOUR]]
             ELSE [raised |-> FALSE, can_fix |-> TRUE, reason |-> NoReason]

-----------------------------------------------------------------------------
(* Ledger append                                                           *)

\* s[:50], the slice taken from the wrong end
LastN_head(s) ==
    IF Len(s) <= KeepLast THEN s ELSE SubSeq(s, 1, KeepLast)

\* s[-50:]
LastN(s) ==
    IF Len(s) <= KeepLast THEN s ELSE SubSeq(s, Len(s) - KeepLast + 1, Len(s))

\* record_fix_attempt without its "last_attempt = now" assignment
record_fix_attempt_stale(workflow_name, failure_type, action, success, attempts, t) ==
    LET base == IF workflow_name \in DOMAIN attempts THEN attempts
                ELSE attempts @@
                     (workflow_name :> [attempts |-> <<>>, last_attempt |-> Null])
        appended == Append(base[workflow_name].attempts,
                           [timestamp |-> isoformat(t),
                            failure_type |-> failure_type,
                            action |-> action,
                            success |-> success])
    IN  [base EXCEPT ![workflow_name] =
            [attempts |-> LastN(appended),
             last_attempt |-> base[workflow_name].last_attempt]]

\* record_fix_attempt putting the new record in front
record_fix_attempt_prepending(workflow_name, failure_type, action, success, attempts, t) ==
    LET base == IF workflow_name \in DOMAIN attempts THEN attempts
                ELSE attempts @@
                     (workflow_name :> [attempts |-> <<>>, last_attempt |-> Null])
        stamp == isoformat(t)
        appended == <<[timestamp |-> stamp,
                       failure_type |-> failure_type,
                       action |-> action,
                       success |-> success]>> \o base[workflow_name].attempts
    IN  [base EXCEPT ![workflow_name] =
            [attempts |-> LastN(appended), last_attempt |-> stamp]]

\* record_fix_attempt keeping one last_attempt for the repository: the new
\* timestamp is written to every workflow of the mapping
record_fix_attempt_stamping_all(workflow_name, failure_type, action, success, attempts, t) ==
    LET base == IF workflow_name \in DOMAIN attempts THEN attempts
                ELSE attempts @@
                     (workflow_name :> [attempts |-> <<>>, last_attempt |-> Null])
        stamp == isoformat(t)
        appended == Append(base[workflow_name].attempts,
                           [timestamp |-> stamp,
                            failure_type |-> failure_type,
                            action |-> action,
                            success |-> success])
    IN  [x \in DOMAIN base |->
            [attempts |-> IF x = workflow_name THEN LastN(appended)
                          ELSE base[x].attempts,
             last_attempt |-> stamp]]

\* record_fix_attempt(workflow_name, failure_type, action, success, attempts),
\* with datetime.now() = t
record_fix_attempt(workflow_name, failure_type, action, success, attempts, t) ==
    LET base == IF workflow_name \in DOMAIN attempts THEN attempts
                ELSE attempts @@
                     (workflow_name :> [attempts |-> <<>>, last_attempt |-> Null])
        stamp == isoformat(t)
        appended == Append(base[workflow_name].attempts,
                           [timestamp |-> stamp,
                            failure_type |-> failure_type,
                            action |-> action,
                            success |-> success])
    IN  [base EXCEPT ![workflow_name] =
            [attempts |-> LastN(appended), last_attempt |-> stamp]]

-----------------------------------------------------------------------------
(* Collaborators and fix strategies.  cmd_ok is whether the gh command,    *)
(* if one is run, exits 0.  A strategy yields its return value and the     *)
(* gh commands it ran.                                                     *)

NoCall(ret) == [success |-> ret, gh |-> <<>>]

\* create_github_issue(): gh issue create
create_github_issue(cmd_ok) == [success |-> cmd_ok, gh |-> <<"issue_create">>]

\* retry_workflow without its dry_run branch
retry_workflow_always(dry_run, cmd_ok) ==
    [success |-> cmd_ok, gh |-> <<"workflow_run">>]

\* retry_workflow(): gh workflow run, nothing under dry_run
retry_workflow(dry_run, cmd_ok) ==
    IF dry_run THEN NoCall(TRUE)
    ELSE [success |-> cmd_ok, gh |-> <<"workflow_run">>]

fix_permission_denied(dry_run, cmd_ok) ==
    IF dry_run THEN NoCall(TRUE) ELSE create_github_issue(cmd_ok)

\* fix_api_quota re-running the workflow like fix_empty_response
fix_api_quota_retrying(dry_run, cmd_ok) ==
    IF dry_run THEN NoCall(TRUE) ELSE retry_workflow(dry_run, cmd_ok)

fix_api_quota(dry_run, cmd_ok) == NoCall(TRUE)

\* fix_empty_response written like fix_api_quota: wait, run nothing
fix_empty_response_waiting(dry_run, cmd_ok) == NoCall(TRUE)

fix_empty_response(dry_run, cmd_ok) ==
    IF dry_run THEN NoCall(TRUE) ELSE retry_workflow(dry_run, cmd_ok)

\* fix_missing_secret written like the transient-error strategies
fix_missing_secret_retrying(dry_run, cmd_ok) ==
    IF dry_run THEN NoCall(TRUE) ELSE retry_workflow(dry_run, cmd_ok)

fix_missing_secret(dry_run, cmd_ok) ==
    IF dry_run THEN NoCall(TRUE) ELSE create_github_issue(cmd_ok)

fix_encoding_error(dry_run, cmd_ok) == retry_workflow(dry_run, cmd_ok)

\* fix_git_conflict opening a ticket before it re-runs the workflow
fix_git_conflict_with_ticket(dry_run, cmd_ok) ==
    IF dry_run THEN NoCall(TRUE)
    ELSE [success |-> cmd_ok, gh |-> <<"issue_create", "workflow_run">>]

fix_git_conflict(dry_run, cmd_ok) == retry_workflow(dry_run, cmd_ok)

fix_unknown(dry_run, cmd_ok) ==
    IF dry_run THEN NoCall(TRUE) ELSE create_github_issue(cmd_ok)

\* FIX_STRATEGIES, by the name of the function it holds
FIX_STRATEGIES ==
    [ft \in Listed |->
        CASE ft = "permission_denied" -> "fix_permission_denied"
          [] ft = "api_quota"         -> "fix_api_quota"
          [] ft = "empty_response"    -> "fix_empty_response"
          [] ft = "missing_secret"    -> "fix_missing_secret"
          [] ft = "encoding_error"    -> "fix_encoding_error"
          [] ft = "git_conflict"      -> "fix_git_conflict"
          [] ft = "workflow_config"   -> "fix_unknown"
          [] ft = "unknown"           -> "fix_unknown"]

\* the lookup with a re-run as its default
GetStrategy_default_retry(failure_type) ==
    IF failure_type \in DOMAIN FIX_STRATEGIES THEN FIX_STRATEGIES[failure_type]
    ELSE "fix_git_conflict"

\* FIX_STRATEGIES.get(failure_type, fix_unknown)
GetStrategy(failure_type) ==
    IF failure_type \in DOMAIN FIX_STRATEGIES THEN FIX_STRATEGIES[failure_type]
    ELSE "fix_unknown"

\* fix_func(workflow_name, run_id, dry_run)
CallFix(fix_func, dry_run, cmd_ok) ==
    CASE fix_func = "fix_permission_denied" -> fix_permission_denied(dry_run, cmd_ok)
      [] fix_func = "fix_api_quota"         -> fix_api_quota(dry_run, cmd_ok)
      [] fix_func = "fix_empty_response"    -> fix_empty_response(dry_run, cmd_ok)
      [] fix_func = "fix_missing_secret"    -> fix_missing_secret(dry_run, cmd_ok)
      [] fix_func = "fix_encoding_error"    -> fix_encoding_error(dry_run, cmd_ok)
      [] fix_func = "fix_git_conflict"      -> fix_git_conflict(dry_run, cmd_ok)
      [] fix_func = "fix_unknown"           -> fix_unknown(dry_run, cmd_ok)

-----------------------------------------------------------------------------
(* Orchestrator                                                            *)

\* What one apply_fix call does, given the file it finds and the clock:
\*   outcome   "cooldown" | "rate_limit"  the guard denied, returns False
\*             "raised"                   an exception left apply_fix
\*             "returned"                 dispatched, returns result
\*   gh        the gh commands run, in order
\*   appended  whether record_fix_attempt ran
\*   saved     whether save_fix_attempts ran
\*   file      the file afterwards

\* a denial that also writes the denied attempt to the ledger
stopped_recording(outcome, reason, workflow_name, failure_type, attempts, f, t) ==
    [outcome |-> outcome, result |-> FALSE, reason |-> reason,
     fix_func |-> "none", gh |-> <<>>, appended |-> TRUE, saved |-> TRUE,
     file |-> IF outcome = "raised" THEN f
              ELSE save_fix_attempts(record_fix_attempt(workflow_name, failure_type,
                                                        "none", FALSE, attempts, t))]

\* "if not can_fix: print(reason); return False", or the exception leaving
stopped(outcome, reason, workflow_name, failure_type, attempts, f, t) ==
    [outcome |-> outcome, result |-> FALSE, reason |-> reason,
     fix_func |-> "none", gh |-> <<>>, appended |-> FALSE, saved |-> FALSE,
     file |-> f]

\* the tail of apply_fix, recording only the fixes that succeeded
dispatch_record_successes(workflow_name, failure_type, dry_run, cmd_ok, attempts, f, t) ==
    LET fix_func == GetStrategy(failure_type)
        fix == CallFix(fix_func, dry_run, cmd_ok)
        keep == ~dry_run /\ fix.success
    IN  [outcome |-> "returned", result |-> fix.success, reason |-> NoReason,
         fix_func |-> fix_func, gh |-> fix.gh,
         appended |-> keep, saved |-> keep,
         file |-> IF keep
                  THEN save_fix_attempts(
                          record_fix_attempt(workflow_name, failure_type, fix_func,
                                             fix.success, attempts, t))
                  ELSE f]

\* the tail of apply_fix without "if not dry_run": dry runs are recorded
dispatch_recording_dry_runs(workflow_name, failure_type, dry_run, cmd_ok, attempts, f, t) ==
    LET fix_func == GetStrategy(failure_type)
        fix == CallFix(fix_func, dry_run, cmd_ok)
    IN  [outcome |-> "returned", result |-> fix.success, reason |-> NoReason,
         fix_func |-> fix_func, gh |-> fix.gh,
         appended |-> TRUE, saved |-> TRUE,
         file |-> save_fix_attempts(
                     record_fix_attempt(workflow_name, failure_type, fix_func,
                                        fix.success, attempts, t))]

\* the tail of apply_fix once the guard has admitted: pick the strategy,
\* run it, and unless dry_run record the attempt and save
dispatch_and_record(workflow_name, failure_type, dry_run, cmd_ok, attempts, f, t) ==
    LET fix_func == GetStrategy(failure_type)
        fix == CallFix(fix_func, dry_run, cmd_ok)
    IN  [outcome |-> "returned", result |-> fix.success, reason |-> NoReason,
         fix_func |-> fix_func, gh |-> fix.gh,
         appended |-> ~dry_run, saved |-> ~dry_run,
         file |-> IF dry_run THEN f
                  ELSE save_fix_attempts(
                          record_fix_attempt(workflow_name, failure_type, fix_func,
                                             fix.success, attempts, t))]

\* apply_fix over a load that lets a json.load failure through
apply_fix_strict_load(workflow_name, failure_type, dry_run, cmd_ok, f, t) ==
    LET attempts == load_fix_attempts(f)
        cooldown == check_cooldown(workflow_name, attempts, t)
        rate == check_rate_limit(workflow_name, attempts, t)
    IN  IF f.state = "corrupt"
        THEN stopped("raised", NoReason,
                     workflow_name, failure_type, attempts, f, t)
        ELSE IF ~cooldown.can_fix
        THEN stopped("cooldown", cooldown.reason,
                     workflow_name, failure_type, attempts, f, t)
        ELSE IF rate.raised
        THEN stopped("raised", NoReason,
                     workflow_name, failure_type, attempts, f, t)
        ELSE IF ~rate.can_fix
        THEN stopped("rate_limit", rate.reason,
                     workflow_name, failure_type, attempts, f, t)
        ELSE dispatch_and_record(workflow_name, failure_type, dry_run, cmd_ok,
                                 attempts, f, t)

\* apply_fix with a cooldown per failure type: the cooldown counts only
\* when the job's latest record is of the type being fixed
apply_fix_cooldown_per_type(workflow_name, failure_type, dry_run, cmd_ok, f, t) ==
    LET attempts == load_fix_attempts(f)
        cooldown == check_cooldown(workflow_name, attempts, t)
        rate == check_rate_limit(workflow_name, attempts, t)
        same_type ==
            /\ workflow_name \in DOMAIN attempts
            /\ Len(attempts[workflow_name].attempts) > 0
            /\ attempts[workflow_name].attempts[
                   Len(attempts[workflow_name].attempts)].failure_type = failure_type
    IN  IF ~cooldown.can_fix /\ same_type
        THEN stopped("cooldown", cooldown.reason,
                     workflow_name, failure_type, attempts, f, t)
        ELSE IF rate.raised
        THEN stopped("raised", NoReason,
                     workflow_name, failure_type, attempts, f, t)
        ELSE IF ~rate.can_fix
        THEN stopped("rate_limit", rate.reason,
                     workflow_name, failure_type, attempts, f, t)
        ELSE dispatch_and_record(workflow_name, failure_type, dry_run, cmd_ok,
                                 attempts, f, t)

\* apply_fix with the two guards in the other order
apply_fix_rate_limit_first(workflow_name, failure_type, dry_run, cmd_ok, f, t) ==
    LET attempts == load_fix_attempts(f)
        cooldown == check_cooldown(workflow_name, attempts, t)
        rate == check_rate_limit(workflow_name, attempts, t)
    IN  IF rate.raised
        THEN stopped("raised", NoReason,
                     workflow_name, failure_type, attempts, f, t)
        ELSE IF ~rate.can_fix
        THEN stopped("rate_limit", rate.reason,
                     workflow_name, failure_type, attempts, f, t)
        ELSE IF ~cooldown.can_fix
        THEN stopped("cooldown", cooldown.reason,
                     workflow_name, failure_type, attempts, f, t)
        ELSE dispatch_and_record(workflow_name, failure_type, dry_run, cmd_ok,
                                 attempts, f, t)

apply_fix(workflow_name, failure_type, dry_run, cmd_ok, f, t) ==
    LET attempts == load_fix_attempts(f)
        cooldown == check_cooldown(workflow_name, attempts, t)
        rate == check_rate_limit(workflow_name, attempts, t)
    IN  IF ~cooldown.can_fix
        THEN stopped("cooldown", cooldown.reason,
                     workflow_name, failure_type, attempts, f, t)
        ELSE IF rate.raised
        THEN stopped("raised", NoReason,
                     workflow_name, failure_type, attempts, f, t)
        ELSE IF ~rate.can_fix
        THEN stopped("rate_limit", rate.reason,
                     workflow_name, failure_type, attempts, f, t)
        ELSE dispatch_and_record(workflow_name, failure_type, dry_run, cmd_ok,
                                 attempts, f, t)

-----------------------------------------------------------------------------
(* State machine                                                           *)

NoCallYet ==
    [workflow |-> "none", failure_type |-> "none", dry_run |-> FALSE,
     at |-> 0, outcome |-> "none", result |-> FALSE, reason |-> NoReason,
     fix_func |-> "none", gh |-> <<>>, appended |-> FALSE, saved |-> FALSE,
     exit |-> 0]

\* no process in flight, nothing classified
NoProcs == <<>>
NoLog == [kind |-> "unset", lines |-> <<>>]
NoDiagnosis ==
    [type |-> "none", severity |-> "none", fixable |-> FALSE,
     description |-> "none", matched_text |-> [is_none |-> TRUE, text |-> ""]]

\* no diagnosis CLI process
NoSweep ==
    [pc |-> "idle", args_workflow |-> "", discovered |-> <<>>,
     world |-> <<>>, workflows |-> <<>>, results |-> <<>>, gh |-> <<>>,
     exit |-> -1]

Quiet ==
    /\ procs = NoProcs
    /\ log = NoLog
    /\ diagnosis = NoDiagnosis
    /\ sweep = NoSweep

Init ==
    /\ file = AbsentFile
    /\ now = 0
    /\ last = NoCallYet
    /\ Quiet

\* sys.exit(0 if success else 1) in main; an exception that leaves
\* apply_fix ends the interpreter with status 1
\* main with sys.exit(success)
main_exit_success(failure_type, r) ==
    IF failure_type \notin DOMAIN FIX_STRATEGIES THEN 2
    ELSE IF r.outcome = "raised" THEN 1
    ELSE IF r.result THEN 1 ELSE 0

\* main(): the exit status of the process.  argparse rejects a failure type
\* outside choices=list(FIX_STRATEGIES.keys()) with status 2 before
\* apply_fix is called; an exception out of apply_fix ends the process with
\* status 1; otherwise sys.exit(0 if success else 1).
main(failure_type, r) ==
    IF failure_type \notin DOMAIN FIX_STRATEGIES THEN 2
    ELSE IF r.outcome = "raised" THEN 1
    ELSE IF r.result THEN 0 ELSE 1

\* what a finished call r of apply_fix leaves to observe
Observed(workflow_name, failure_type, dry_run, t, r) ==
    [workflow |-> workflow_name, failure_type |-> failure_type,
     dry_run |-> dry_run, at |-> t,
     outcome |-> r.outcome, result |-> r.result,
     reason |-> r.reason, fix_func |-> r.fix_func, gh |-> r.gh,
     appended |-> r.appended, saved |-> r.saved, exit |-> main(failure_type, r)]

\* one invocation of apply_fix (the CLI's main calls it once per process)
ApplyFix(workflow_name, failure_type, dry_run, cmd_ok) ==
    LET r == apply_fix(workflow_name, failure_type, dry_run, cmd_ok, file, now)
    IN  /\ file' = r.file
        /\ last' = Observed(workflow_name, failure_type, dry_run, now, r)
        /\ UNCHANGED <<now, procs, log, diagnosis, sweep>>

ClockSteps == {59, 60, 61}

\* time passes between invocations
Tick(minutes) ==
    /\ now + minutes * SecondsPerMinute <= MaxNowMinutes * SecondsPerMinute
    /\ now' = now + minutes * SecondsPerMinute
    /\ UNCHANGED <<file, last, procs, log, diagnosis, sweep>>

\* any invocation for the job
Call ==
    \E w \in Jobs, ft \in FailureTypes, dry \in BOOLEAN, ok \in BOOLEAN :
        ApplyFix(w, ft, dry, ok)

Pass == \E m \in ClockSteps : Tick(m)

Next == Call \/ Pass

\* The life of the ledger from a repository that has no fix_attempts.json.
Spec == Init /\ [][Next]_vars

-----------------------------------------------------------------------------
(* One invocation on a ledger file found on disk.  The file is whatever    *)
(* JSON an earlier run, another tool or a person left there: histories of  *)
(* up to MaxHist records whose timestamps and last_attempt are drawn       *)
(* independently, including values fromisoformat cannot read.              *)

DrawnStamps == {isoformat(0), isoformat(30), Garbage}

DrawnRecord(stamp, ok) ==
    [timestamp |-> stamp, failure_type |-> "unknown",
     action |-> "fix_unknown", success |-> ok]

DrawnHistories ==
    UNION {[1..n -> {DrawnRecord(s, ok) : s \in DrawnStamps, ok \in BOOLEAN}] :
            n \in 0..MaxHist}

DrawnFiles ==
    {AbsentFile, [state |-> "corrupt", doc |-> EmptyDoc],
     [state |-> "ok", doc |-> EmptyDoc]}
    \cup {[state |-> "ok",
           doc |-> [w \in Jobs |-> [attempts |-> h, last_attempt |-> la]]] :
            h \in DrawnHistories, la \in DrawnStamps \cup {Null}}

DrawnNows == {0, 30, 59 * SecondsPerMinute + 30, 60 * SecondsPerMinute,
              60 * SecondsPerMinute + 30, 61 * SecondsPerMinute}

InitSnapshot ==
    /\ file \in DrawnFiles
    /\ now \in DrawnNows
    /\ last = NoCallYet
    /\ Quiet

CallOnce ==
    /\ last.outcome = "none"
    /\ \E w \in Jobs, ft \in {"empty_response", "missing_secret"},
          dry \in BOOLEAN, ok \in BOOLEAN :
            ApplyFix(w, ft, dry, ok)

NextSnapshot == CallOnce

SpecSnapshot == InitSnapshot /\ [][NextSnapshot]_vars

-----------------------------------------------------------------------------
(* A day of scheduled invocations.  The ledger starts empty, invocations   *)
(* follow one another every 20 or 60 minutes, so that several of them fall *)
(* inside one cooldown window and several windows follow one another.      *)

SpacingTypes == {"api_quota", "empty_response", "missing_secret"}

SpacingSteps == {20, 60}

InitSpacing ==
    /\ file \in {AbsentFile, [state |-> "ok", doc |-> EmptyDoc]}
    /\ now = 0
    /\ last = NoCallYet
    /\ Quiet

CallSpacing ==
    \E w \in Jobs, ft \in SpacingTypes, dry \in BOOLEAN, ok \in BOOLEAN :
        ApplyFix(w, ft, dry, ok)

PassSpacing ==
    \E m \in SpacingSteps :
        /\ now + m * SecondsPerMinute <= MaxSpacingMinutes * SecondsPerMinute
        /\ now' = now + m * SecondsPerMinute
        /\ UNCHANGED <<file, last, procs, log, diagnosis, sweep>>

NextSpacing == CallSpacing \/ PassSpacing

SpecSpacing == InitSpacing /\ [][NextSpacing]_vars

-----------------------------------------------------------------------------
(* Appends in a row.  The job's history grows from nothing by one record   *)
(* per second, next to whatever another workflow already has in the file.  *)

OtherHistories ==
    {[attempts |-> <<[timestamp |-> isoformat(0), failure_type |-> ft,
                      action |-> GetStrategy(ft), success |-> ok]>>,
      last_attempt |-> isoformat(0)] : ft \in FailureTypes, ok \in BOOLEAN}

InitLedger ==
    /\ file \in {AbsentFile}
                \cup {[state |-> "ok", doc |-> [w \in {OtherJob} |-> h]] :
                        h \in OtherHistories}
    /\ now = 0
    /\ last = NoCallYet
    /\ Quiet

\* lines 446-454 of apply_fix on their own: record the attempt and save
RecordAttempt(workflow_name, failure_type, success) ==
    /\ now < MaxAppends
    /\ file' = save_fix_attempts(
                  record_fix_attempt(workflow_name, failure_type,
                                     GetStrategy(failure_type), success,
                                     load_fix_attempts(file), now))
    /\ now' = now + 1
    /\ UNCHANGED <<last, procs, log, diagnosis, sweep>>

NextLedger == \E w \in Jobs : RecordAttempt(w, "empty_response", TRUE)

SpecLedger == InitLedger /\ [][NextLedger]_vars

-----------------------------------------------------------------------------
(* The ledger's life when persisting can fail.  io says how far            *)
(* save_fix_attempts gets: the directory cannot be created, the file       *)
(* cannot be opened for writing, or the write fails after open(..., 'w')   *)
(* has already emptied the file.                                           *)

SaveFaults == {"ok", "mkdir_fail", "open_fail", "write_fail"}

\* save_fix_attempts(attempts) over the file f.  os.makedirs is called
\* before the try block, so its exception leaves the function; a failure
\* of open or json.dump is printed and swallowed.
save_fix_attempts_io(attempts, f, io) ==
    CASE io = "mkdir_fail" -> [raised |-> TRUE, file |-> f]
      [] io = "open_fail"  -> [raised |-> FALSE, file |-> f]
      [] io = "write_fail" -> [raised |-> FALSE,
                               file |-> [state |-> "corrupt", doc |-> EmptyDoc]]
      [] io = "ok"         -> [raised |-> FALSE, file |-> save_fix_attempts(attempts)]

\* apply_fix with the save going as io says
apply_fix_io(workflow_name, failure_type, dry_run, cmd_ok, f, t, io) ==
    LET r == apply_fix(workflow_name, failure_type, dry_run, cmd_ok, f, t)
        saved == save_fix_attempts_io(r.file.doc, f, io)
    IN  IF ~r.saved THEN r
        ELSE IF saved.raised
        THEN [r EXCEPT !.outcome = "raised", !.result = FALSE, !.file = saved.file]
        ELSE [r EXCEPT !.file = saved.file]

ApplyFixIO(workflow_name, failure_type, dry_run, cmd_ok, io) ==
    LET r == apply_fix_io(workflow_name, failure_type, dry_run, cmd_ok,
                          file, now, io)
    IN  /\ file' = r.file
        /\ last' = Observed(workflow_name, failure_type, dry_run, now, r)
        /\ UNCHANGED <<now, procs, log, diagnosis, sweep>>

CallIO ==
    \E w \in Jobs, ft \in {"empty_response", "missing_secret"},
       dry \in BOOLEAN, ok \in BOOLEAN, io \in SaveFaults :
        ApplyFixIO(w, ft, dry, ok, io)

NextIO == CallIO \/ Pass

SpecIO == Init /\ [][NextIO]_vars

-----------------------------------------------------------------------------
(* Invocations as separate processes.  Each runs apply_fix once: it reads  *)
(* the whole file (line 423), and later, on the mapping it read, checks,   *)
(* dispatches, records and writes the whole file back (lines 425-456).     *)
(* Nothing orders the read of one process and the write of another.        *)

Procs == {"p1", "p2"}

AllJobs == Jobs \cup {OtherJob}

IdleProc ==
    [pc |-> "idle", workflow |-> "none", failure_type |-> "none",
     dry_run |-> FALSE, attempts |-> EmptyDoc,
     outcome |-> "none", result |-> FALSE, at |-> 0]

InitRace ==
    /\ file = AbsentFile
    /\ now = 0
    /\ last = NoCallYet
    /\ procs = [p \in Procs |-> IdleProc]
    /\ log = NoLog
    /\ diagnosis = NoDiagnosis
    /\ sweep = NoSweep

\* attempts = load_fix_attempts()
ProcLoad(p, workflow_name, failure_type, dry_run) ==
    /\ procs[p].pc = "idle"
    /\ procs' = [procs EXCEPT ![p] =
                    [IdleProc EXCEPT !.pc = "loaded",
                                     !.workflow = workflow_name,
                                     !.failure_type = failure_type,
                                     !.dry_run = dry_run,
                                     !.attempts = load_fix_attempts(file)]]
    /\ UNCHANGED <<file, now, last, log, diagnosis, sweep>>

\* the rest of apply_fix, run on the file as it is now instead of the
\* mapping the process read
ProcFinish_rereading(p, cmd_ok) ==
    /\ procs[p].pc = "loaded"
    /\ LET r == apply_fix(procs[p].workflow, procs[p].failure_type,
                          procs[p].dry_run, cmd_ok, file, now)
       IN  /\ file' = IF r.saved THEN r.file ELSE file
           /\ procs' = [procs EXCEPT ![p].pc = "done",
                                     ![p].outcome = r.outcome,
                                     ![p].result = r.result,
                                     ![p].at = now]
    /\ UNCHANGED <<now, last, log, diagnosis, sweep>>

\* the rest of apply_fix, on the mapping the process read
ProcFinish(p, cmd_ok) ==
    /\ procs[p].pc = "loaded"
    /\ LET r == apply_fix(procs[p].workflow, procs[p].failure_type,
                          procs[p].dry_run, cmd_ok,
                          [state |-> "ok", doc |-> procs[p].attempts], now)
       IN  /\ file' = IF r.saved THEN r.file ELSE file
           /\ procs' = [procs EXCEPT ![p].pc = "done",
                                     ![p].outcome = r.outcome,
                                     ![p].result = r.result,
                                     ![p].at = now]
    /\ UNCHANGED <<now, last, log, diagnosis, sweep>>

Start ==
    \E p \in Procs, w \in AllJobs, ft \in {"empty_response", "missing_secret"},
       dry \in BOOLEAN :
        ProcLoad(p, w, ft, dry)

Finish == \E p \in Procs, ok \in BOOLEAN : ProcFinish(p, ok)

\* time passes while processes run
RacePass ==
    \E m \in ClockSteps :
        /\ now + m * SecondsPerMinute <= MaxNowMinutes * SecondsPerMinute
        /\ now' = now + m * SecondsPerMinute
        /\ UNCHANGED <<file, last, procs, log, diagnosis, sweep>>

NextRace == Start \/ Finish \/ RacePass

SpecRace == InitRace /\ [][NextRace]_vars

-----------------------------------------------------------------------------
(* One invocation on a ledger that holds two workflows.  The history of    *)
(* nba-news.yml is drawn as in SpecSnapshot, up to the rate limit's three  *)
(* records; next to it the file holds nothing for trade-watcher.yml, or a  *)
(* history that would deny trade-watcher.yml, or one that cannot be read.  *)

OwnEntries ==
    {[attempts |-> h, last_attempt |-> la] :
        h \in UNION {[1..n -> {DrawnRecord(st, TRUE) : st \in DrawnStamps}] :
                        n \in 0..MAX_FIX_ATTEMPTS_PER_HOUR},
        la \in DrawnStamps \cup {Null}}

OtherEntries ==
    {[attempts |-> <<>>, last_attempt |-> Null],
     [attempts |-> [i \in 1..MAX_FIX_ATTEMPTS_PER_HOUR |->
                       DrawnRecord(isoformat(30), TRUE)],
      last_attempt |-> isoformat(30)],
     [attempts |-> <<DrawnRecord(Garbage, FALSE)>>, last_attempt |-> Garbage]}

\* the JSON document holding the given entries, each possibly missing
TwoJobDocs ==
    {[w \in {} |-> 0]}
    \cup {[w \in Jobs |-> own] : own \in OwnEntries}
    \cup {[w \in {OtherJob} |-> other] : other \in OtherEntries}
    \cup {[w \in AllJobs |-> IF w = OtherJob THEN other ELSE own] :
            own \in OwnEntries, other \in OtherEntries}

InitIsolation ==
    /\ file \in {[state |-> "ok", doc |-> d] : d \in TwoJobDocs}
    /\ now \in DrawnNows
    /\ last = NoCallYet
    /\ Quiet

CallIsolated ==
    /\ last.outcome = "none"
    /\ \E w \in AllJobs, ft \in {"empty_response", "missing_secret"},
          dry \in BOOLEAN, ok \in BOOLEAN :
            ApplyFix(w, ft, dry, ok)

NextIsolation == CallIsolated

SpecIsolation == InitIsolation /\ [][NextIsolation]_vars

-----------------------------------------------------------------------------
(* diagnose_workflow_failure.py: the classifier.  A log is None or a text, *)
(* kept as its lines (the text is the lines joined by newlines; no pattern *)
(* holds a newline and "." does not match one, so a match lies in a line). *)

\* re.IGNORECASE on the letters the patterns and logs use
LowerTable ==
    "A" :> "a" @@ "B" :> "b" @@ "C" :> "c" @@ "D" :> "d" @@ "E" :> "e" @@ "F" :> "f" @@
    "G" :> "g" @@ "H" :> "h" @@ "I" :> "i" @@ "J" :> "j" @@ "K" :> "k" @@ "L" :> "l" @@
    "M" :> "m" @@ "N" :> "n" @@ "O" :> "o" @@ "P" :> "p" @@ "Q" :> "q" @@ "R" :> "r" @@
    "S" :> "s" @@ "T" :> "t" @@ "U" :> "u" @@ "V" :> "v" @@ "W" :> "w" @@ "X" :> "x" @@
    "Y" :> "y" @@ "Z" :> "z"

LowerChar(c) == IF c \in DOMAIN LowerTable THEN LowerTable[c] ELSE c

SetMin(S) == CHOOSE x \in S : \A y \in S : x <= y
SetMax(S) == CHOOSE x \in S : \A y \in S : x >= y

\* where the literal lit occurs in the line, ignoring case
Occurrences(line, lit) ==
    {i \in 1..(Len(line) - Len(lit) + 1) :
        \A j \in 1..Len(lit) :
            LowerChar(SubSeq(line, i + j - 1, i + j - 1))
                = LowerChar(SubSeq(lit, j, j))}

\* parts[k], parts[k+1], ... occur in this order at or after position from
RECURSIVE InOrder(_, _, _, _)
InOrder(line, parts, k, from) ==
    IF k > Len(parts) THEN TRUE
    ELSE \E i \in Occurrences(line, parts[k]) :
            /\ i >= from
            /\ InOrder(line, parts, k + 1, i + Len(parts[k]))

\* One alternative of a pattern is literals with ".*" between them; lead
\* says that it starts with ".*", rest that it ends with "(.+)".
Alt(lead, parts, rest) == [lead |-> lead, parts |-> parts, rest |-> rest]

NoMatch == [matched |-> FALSE, start |-> 0, stop |-> 0]

\* The leftmost match of one alternative in a line, greedy as re is, given
\* where its first and its last literal occur: it starts at the first
\* occurrence of the first literal (at the start of the line after a
\* leading ".*") and runs to the last occurrence of the last literal;
\* "literal(.+)" starts at the first occurrence that has a character after
\* it and runs to the end of the line.
greedy_match(line, alt, first, final, in_order) ==
    LET n == Len(alt.parts)
        followed == {i \in first : i + Len(alt.parts[1]) <= Len(line)}
    IN  IF alt.rest
        THEN IF followed = {} THEN NoMatch
             ELSE [matched |-> TRUE, start |-> SetMin(followed),
                   stop |-> Len(line)]
        ELSE IF ~in_order THEN NoMatch
        ELSE [matched |-> TRUE,
              start |-> IF alt.lead THEN 1 ELSE SetMin(first),
              stop |-> IF n = 1 THEN SetMin(first) + Len(alt.parts[1]) - 1
                       ELSE SetMax(final) + Len(alt.parts[n]) - 1]

match_alt(line, alt) ==
    greedy_match(line, alt,
                 Occurrences(line, alt.parts[1]),
                 Occurrences(line, alt.parts[Len(alt.parts)]),
                 InOrder(line, alt.parts, 1, 1))

\* of the matches of a pattern's alternatives, the leftmost one, and among
\* the alternatives that match there the first written
leftmost(ms) ==
    LET hits == {a \in DOMAIN ms : ms[a].matched}
        left == SetMin({ms[a].start : a \in hits})
    IN  IF hits = {} THEN NoMatch
        ELSE ms[SetMin({a \in hits : ms[a].start = left})]

\* the match of a pattern in a line
search_line(line, pattern) ==
    leftmost([a \in 1..Len(pattern) |-> match_alt(line, pattern[a])])

\* FAILURE_PATTERNS, in the order the dict is written
FAILURE_PATTERNS ==
    << [type |-> "permission_denied",
        pattern |-> << Alt(FALSE, <<"Permission to ", " denied">>, FALSE),
                       Alt(FALSE, <<"fatal: unable to access", "403">>, FALSE),
                       Alt(FALSE, <<"The requested URL returned error: 403">>, FALSE) >>,
        severity |-> "high", fixable |-> FALSE,
        description |-> "Git push failed due to insufficient PAT_TOKEN permissions"],
       [type |-> "api_quota",
        pattern |-> << Alt(FALSE, <<"quota", "exceeded">>, FALSE),
                       Alt(FALSE, <<"rate limit">>, FALSE),
                       Alt(FALSE, <<"429">>, FALSE),
                       Alt(FALSE, <<"Resource has been exhausted">>, FALSE) >>,
        severity |-> "medium", fixable |-> TRUE,
        description |-> "Gemini API quota exhausted or rate limited"],
       [type |-> "empty_response",
        pattern |-> << Alt(FALSE, <<"empty response">>, FALSE),
                       Alt(FALSE, <<"no content returned">>, FALSE),
                       Alt(FALSE, <<"response is None">>, FALSE),
                       Alt(FALSE, <<"Response: None">>, FALSE) >>,
        severity |-> "low", fixable |-> TRUE,
        description |-> "Gemini API returned empty response (transient error)"],
       [type |-> "missing_secret",
        pattern |-> << Alt(FALSE, <<"NBA_PROMPT", "not set">>, FALSE),
                       Alt(FALSE, <<"STOCK_PROMPT", "not set">>, FALSE),
                       Alt(TRUE,  <<"_PROMPT", "not set">>, FALSE),
                       Alt(FALSE, <<"environment variable", "NBA_PROMPT", "not found">>, FALSE),
                       Alt(FALSE, <<"environment variable", "STOCK_PROMPT", "not found">>, FALSE),
                       Alt(FALSE, <<"environment variable", "_PROMPT", "not found">>, FALSE) >>,
        severity |-> "high", fixable |-> FALSE,
        description |-> "Required prompt secret environment variable not set"],
       [type |-> "encoding_error",
        pattern |-> << Alt(FALSE, <<"UnicodeDecodeError">>, FALSE),
                       Alt(FALSE, <<"codec", "decode">>, FALSE),
                       Alt(FALSE, <<"'utf-8' codec can't decode">>, FALSE) >>,
        severity |-> "low", fixable |-> TRUE,
        description |-> "UTF-8 encoding error (should be fixed in latest code)"],
       [type |-> "workflow_config",
        pattern |-> << Alt(FALSE, <<"Invalid workflow file">>, FALSE),
                       Alt(FALSE, <<"syntax error in workflow">>, FALSE),
                       Alt(FALSE, <<"yaml", "parse error">>, FALSE) >>,
        severity |-> "high", fixable |-> FALSE,
        description |-> "Workflow YAML configuration syntax error"],
       [type |-> "git_conflict",
        pattern |-> << Alt(FALSE, <<"CONFLICT", "merge">>, FALSE),
                       Alt(FALSE, <<"failed to push", "rejected">>, FALSE),
                       Alt(FALSE, <<"Updates were rejected">>, FALSE) >>,
        severity |-> "medium", fixable |-> TRUE,
        description |-> "Git merge conflict or rejected push"] >>

\* error_patterns of categorize_failure, in list order
error_patterns ==
    << << Alt(FALSE, <<"Error: ">>, TRUE) >>,
       << Alt(FALSE, <<"FATAL: ">>, TRUE) >>,
       << Alt(FALSE, <<"failed with ">>, TRUE) >>,
       << Alt(FALSE, <<"Exception: ">>, TRUE) >> >>

\* Lines of workflow run logs the classifier is tried on.
Filler50 == "xxxxxxxxxxxxxxxxxxxxxxxxxxxxxxxxxxxxxxxxxxxxxxxxxx"
LongLine == "FATAL: " \o Filler50 \o Filler50 \o Filler50 \o Filler50

SampleLines ==
    { "fatal: unable to access 'https://github.com/org/site/': The requested URL returned error: 403",
      "google.api_core.exceptions.ResourceExhausted: 429 Resource has been exhausted",
      "Error: empty response from Gemini",
      "ValueError: NBA_PROMPT environment variable not set",
      "UnicodeDecodeError: 'utf-8' codec can't decode byte 0x81",
      "Invalid workflow file: .github/workflows/nba-news.yml",
      "error: failed to push some refs to origin: Updates were rejected",
      "HTTP 429: empty response from Gemini",
      "##[error]Process completed with exit code 1.",
      "Exception: model call crashed",
      "npm ERR! command failed with exit code 1",
      "Error: build step crashed",
      LongLine }

\* the patterns categorize_failure searches for
Patterns ==
    {FAILURE_PATTERNS[k].pattern : k \in 1..Len(FAILURE_PATTERNS)} \cup
    {error_patterns[k] : k \in 1..Len(error_patterns)}

\* search_line on the sample lines, worked out once
LineMatches ==
    [pattern \in Patterns |->
        [line \in SampleLines |-> search_line(line, pattern)]]

match_line(line, pattern) ==
    IF pattern \in Patterns /\ line \in SampleLines
    THEN LineMatches[pattern][line]
    ELSE search_line(line, pattern)

\* of the matches in the lines of a text, the one in the first line that
\* has one, with the match's group(0)
first_in_text(lines, ms) ==
    LET hits == {k \in DOMAIN ms : ms[k].matched}
        k1 == SetMin(hits)
    IN  IF hits = {} THEN [matched |-> FALSE, group0 |-> ""]
        ELSE [matched |-> TRUE,
              group0 |-> SubSeq(lines[k1], ms[k1].start, ms[k1].stop)]

\* re.search(pattern, log_content, re.IGNORECASE | re.MULTILINE)
re_search(pattern, lines) ==
    first_in_text(lines,
                  [k \in 1..Len(lines) |-> match_line(lines[k], pattern)])

SnippetLimit == 200

NoneText == [is_none |-> TRUE, text |-> ""]
Text(s) == [is_none |-> FALSE, text |-> s]

\* "if not log_content": None or the empty string
NoLogContent(log_content) ==
    log_content.kind = "None" \/ Len(log_content.lines) = 0

\* the loop that keeps going and lets a later pattern overwrite the result
first_match_overwritten(hits) == SetMax(hits)

\* "for ...: if match: return / break": the first entry that matches
first_match(hits) == SetMin(hits)

\* categorize_failure answering every match with the metadata of the
\* fallback instead of the matching entry's
categorized_fallback_metadata(found, found_errors) ==
    LET hits == {k \in DOMAIN found : found[k].matched}
        info == FAILURE_PATTERNS[first_match(hits)]
    IN  IF hits /= {}
        THEN [type |-> info.type, severity |-> "high", fixable |-> FALSE,
              description |-> "Unknown failure - requires human review",
              matched_text |-> Text(found[first_match(hits)].group0)]
        ELSE [type |-> "unknown", severity |-> "high", fixable |-> FALSE,
              description |-> "Unknown failure - requires human review",
              matched_text |-> NoneText]

\* the two loops of categorize_failure, given what re.search finds for
\* each entry of FAILURE_PATTERNS and of error_patterns
categorized(found, found_errors) ==
    LET hits == {k \in DOMAIN found : found[k].matched}
        info == FAILURE_PATTERNS[first_match(hits)]
        errs == {k \in DOMAIN found_errors : found_errors[k].matched}
        snippet == found_errors[first_match(errs)].group0
        error_snippet ==
            IF errs = {} THEN NoneText
            ELSE Text(SubSeq(snippet, 1, IF Len(snippet) < SnippetLimit
                                         THEN Len(snippet) ELSE SnippetLimit))
    IN  IF hits /= {}
        THEN [type |-> info.type, severity |-> info.severity,
              fixable |-> info.fixable, description |-> info.description,
              matched_text |-> Text(found[first_match(hits)].group0)]
        ELSE [type |-> "unknown", severity |-> "high", fixable |-> FALSE,
              description |-> "Unknown failure - requires human review",
              matched_text |-> error_snippet]

\* categorize_failure after its check for missing logs
classify_text(lines) ==
    categorized([k \in 1..Len(FAILURE_PATTERNS) |->
                    re_search(FAILURE_PATTERNS[k].pattern, lines)],
                [k \in 1..Len(error_patterns) |->
                    re_search(error_patterns[k], lines)])

\* categorize_failure without "if not log_content"
categorize_failure_unguarded(log_content) == classify_text(log_content.lines)

categorize_failure(log_content) ==
    IF NoLogContent(log_content)
    THEN [type |-> "unknown", severity |-> "medium", fixable |-> FALSE,
          description |-> "Could not retrieve logs to diagnose failure",
          matched_text |-> NoneText]
    ELSE classify_text(log_content.lines)

MaxLines == 2

DrawnLogs ==
    {[kind |-> "None", lines |-> <<>>]} \cup
    {[kind |-> "str", lines |-> ls] :
        ls \in UNION {[1..n -> SampleLines] : n \in 0..MaxLines}}

InitClassify ==
    /\ file = AbsentFile
    /\ now = 0
    /\ last = NoCallYet
    /\ procs = NoProcs
    /\ log \in DrawnLogs
    /\ diagnosis = NoDiagnosis
    /\ sweep = NoSweep

\* diagnosis = categorize_failure(logs)
Categorize ==
    /\ diagnosis = NoDiagnosis
    /\ diagnosis' = categorize_failure(log)
    /\ UNCHANGED <<file, now, last, procs, log, sweep>>

NextClassify == Categorize

SpecClassify == InitClassify /\ [][NextClassify]_vars

-----------------------------------------------------------------------------
(* diagnose_workflow_failure.py: the sweep.  The world holds, per workflow, *)
(* what "gh run list" answers, and per run what "gh run view --log"        *)
(* answers.                                                                *)

FailedConclusions == {"failure", "cancelled", "timed_out"}

\* get_recent_failures without the filter on the conclusion
get_recent_failures_unfiltered(listing) ==
    IF listing.returncode /= 0 THEN <<>>
    ELSE IF ~listing.parsable THEN <<>>
    ELSE listing.runs

\* get_recent_failures(): [] when gh fails or its output is not JSON,
\* otherwise the runs whose conclusion is failure, cancelled or timed_out
get_recent_failures(listing) ==
    IF listing.returncode /= 0 THEN <<>>
    ELSE IF ~listing.parsable THEN <<>>
    ELSE SelectSeq(listing.runs,
                   LAMBDA run : run.conclusion \in FailedConclusions)

\* download_run_logs(): None when gh fails, otherwise its stdout
download_run_logs(run) ==
    IF run.view.returncode /= 0 THEN [kind |-> "None", lines |-> <<>>]
    ELSE [kind |-> "str", lines |-> run.view.lines]

\* the loop with the log of the first failure used for every run
diagnose_runs_first_log(failures) ==
    [i \in 1..Len(failures) |->
        [run_id |-> failures[i].databaseId,
         diagnosis |-> categorize_failure(download_run_logs(failures[1]))]]

\* the loop of diagnose_workflow over the failures
diagnose_runs(failures) ==
    [i \in 1..Len(failures) |->
        [run_id |-> failures[i].databaseId,
         diagnosis |-> categorize_failure(download_run_logs(failures[i]))]]

\* the report diagnose_workflow returns for the diagnosed failures
report(workflow_name, diagnosed_failures) ==
    LET fixable_count ==
            Cardinality({i \in 1..Len(diagnosed_failures) :
                            diagnosed_failures[i].diagnosis.fixable})
    IN  IF Len(diagnosed_failures) = 0
        THEN [workflow |-> workflow_name, status |-> "healthy",
              recent_failures |-> 0, failures |-> <<>>]
        ELSE [workflow |-> workflow_name, status |-> "failing",
              recent_failures |-> Len(diagnosed_failures),
              fixable_failures |-> fixable_count,
              requires_human |-> Len(diagnosed_failures) - fixable_count,
              failures |-> diagnosed_failures]

\* the gh commands diagnose_workflow runs: the run list, then one log
\* download per failure
sweep_commands(failures) ==
    <<"run_list">> \o [i \in 1..Len(failures) |-> "run_view"]

\* diagnose_workflow that re-runs what it finds
diagnose_workflow_rerunning(workflow_name, listing) ==
    [report |-> report(workflow_name,
                       diagnose_runs(get_recent_failures(listing))),
     gh |-> sweep_commands(get_recent_failures(listing)) \o <<"workflow_run">>]

diagnose_workflow(workflow_name, listing) ==
    [report |-> report(workflow_name,
                       diagnose_runs(get_recent_failures(listing))),
     gh |-> sweep_commands(get_recent_failures(listing))]

\* What gh can answer.
ViewOutcomes ==
    { [returncode |-> 1, lines |-> <<>>],
      [returncode |-> 0, lines |-> <<"Error: empty response from Gemini">>],
      [returncode |-> 0,
       lines |-> <<"Invalid workflow file: .github/workflows/nba-news.yml">>],
      [returncode |-> 0,
       lines |-> <<"##[error]Process completed with exit code 1.">>] }

Conclusions == {"success"} \cup FailedConclusions

MaxRuns == 2

\* the runs of a listing, numbered as gh numbers them
RunLists ==
    UNION {{[i \in 1..n |-> [databaseId |-> i, conclusion |-> c[i],
                             view |-> v[i]]] :
                c \in [1..n -> Conclusions], v \in [1..n -> ViewOutcomes]} :
           n \in 0..MaxRuns}

NoRuns == [returncode |-> 0, parsable |-> TRUE, runs |-> <<>>]

Listings ==
    { [returncode |-> 1, parsable |-> FALSE, runs |-> <<>>],
      [returncode |-> 0, parsable |-> FALSE, runs |-> <<>>] } \cup
    {[returncode |-> 0, parsable |-> TRUE, runs |-> rs] : rs \in RunLists}

\* what gh answers for the second workflow
OtherListings ==
    { [returncode |-> 1, parsable |-> FALSE, runs |-> <<>>],
      [returncode |-> 0, parsable |-> TRUE,
       runs |-> <<[databaseId |-> 1, conclusion |-> "success",
                   view |-> [returncode |-> 1, lines |-> <<>>]]>>],
      [returncode |-> 0, parsable |-> TRUE,
       runs |-> <<[databaseId |-> 1, conclusion |-> "failure",
                   view |-> [returncode |-> 0,
                             lines |-> <<"Error: empty response from Gemini">>]]>>] }

\* the command lines: --workflow given, or discovery finding none, one or
\* two workflows (sorted)
SweepArgs ==
    { [args_workflow |-> "nba-news.yml", discovered |-> <<>>],
      [args_workflow |-> "", discovered |-> <<>>],
      [args_workflow |-> "", discovered |-> <<"nba-news.yml">>],
      [args_workflow |-> "", discovered |-> <<"nba-news.yml", OtherJob>>] }

Worlds ==
    {[w \in AllJobs |-> IF w = OtherJob THEN o ELSE l] :
        l \in Listings, o \in OtherListings \cup {NoRuns}}

InitSweep ==
    /\ file \in {AbsentFile, [state |-> "corrupt", doc |-> EmptyDoc]}
    /\ now = 0
    /\ last = NoCallYet
    /\ procs = NoProcs
    /\ log = NoLog
    /\ diagnosis = NoDiagnosis
    /\ \E a \in SweepArgs, wd \in Worlds :
          /\ Len(a.discovered) < 2 => wd[OtherJob] = NoRuns
          /\ (a.args_workflow = "" /\ a.discovered = <<>>) =>
                wd["nba-news.yml"] = NoRuns
          /\ sweep = [NoSweep EXCEPT !.pc = "start",
                                     !.args_workflow = a.args_workflow,
                                     !.discovered = a.discovered,
                                     !.world = wd]

\* main(): the workflow given, or those discovered; none discovered ends
\* the process with status 1
Discover ==
    /\ sweep.pc = "start"
    /\ LET workflows == IF sweep.args_workflow /= ""
                        THEN <<sweep.args_workflow>>
                        ELSE sweep.discovered
       IN  sweep' = IF sweep.args_workflow = "" /\ Len(workflows) = 0
                    THEN [sweep EXCEPT !.pc = "exited", !.exit = 1]
                    ELSE [sweep EXCEPT !.pc = "diagnosing",
                                       !.workflows = workflows]
    /\ UNCHANGED <<file, now, last, procs, log, diagnosis>>

\* one turn of "for workflow in workflows": diagnose_workflow(workflow)
Diagnose ==
    /\ sweep.pc = "diagnosing"
    /\ Len(sweep.results) < Len(sweep.workflows)
    /\ LET workflow == sweep.workflows[Len(sweep.results) + 1]
           d == diagnose_workflow(workflow, sweep.world[workflow])
       IN  sweep' = [sweep EXCEPT !.results = Append(@, d.report),
                                  !.gh = @ \o d.gh]
    /\ UNCHANGED <<file, now, last, procs, log, diagnosis>>

\* any_failures of the results so far
any_failures(results) ==
    \E i \in 1..Len(results) : results[i].status = "failing"

\* sys.exit(0 if any_failures else 1)
exit_status_swapped(results) == IF any_failures(results) THEN 0 ELSE 1

\* sys.exit(1 if any_failures else 0)
exit_status(results) == IF any_failures(results) THEN 1 ELSE 0

Exit ==
    /\ sweep.pc = "diagnosing"
    /\ Len(sweep.results) = Len(sweep.workflows)
    /\ sweep' = [sweep EXCEPT !.pc = "exited",
                              !.exit = exit_status(sweep.results)]
    /\ UNCHANGED <<file, now, last, procs, log, diagnosis>>

NextSweep == Discover \/ Diagnose \/ Exit

SpecSweep == InitSweep /\ [][NextSweep]_vars

-----------------------------------------------------------------------------
(* Properties.  A step that leaves the clock alone is one apply_fix call:  *)
(* the unprimed file is the ledger the call found, last' what it did.      *)

CallStep(w) == now' = now /\ last'.outcome /= "none" /\ last'.workflow = w

\* the job has a history in the ledger the call loads
HasHistory(w) == file.state = "ok" /\ w \in DOMAIN file.doc

StoredLast(w) == file.doc[w].last_attempt

StoredAttempts(w) == file.doc[w].attempts

AllReadable(w) ==
    \A i \in 1..Len(StoredAttempts(w)) : StoredAttempts(w)[i].timestamp.kind = "iso"

\* stored attempts less than 60 minutes old
RecentCount(w) ==
    Cardinality({i \in 1..Len(StoredAttempts(w)) :
                    /\ StoredAttempts(w)[i].timestamp.kind = "iso"
                    /\ now - StoredAttempts(w)[i].timestamp.val < 60 * 60})

\* C1: with lastAttempt = T, a call at now < T + 60 min is denied by the
\* cooldown; a call at now >= T + 60 min (T + 60 min included) passes the
\* cooldown and, the rate limit not being exceeded, is dispatched; a job
\* with no history or a null lastAttempt is never denied by the cooldown.
C1_CooldownGate ==
    [][\A w \in Jobs : CallStep(w) =>
          /\ (HasHistory(w) /\ StoredLast(w).kind = "iso") =>
                /\ now < StoredLast(w).val + 60 * 60 => last'.outcome = "cooldown"
                /\ now >= StoredLast(w).val + 60 * 60 =>
                      /\ last'.outcome /= "cooldown"
                      /\ (AllReadable(w) /\ RecentCount(w) < 3) =>
                            last'.outcome = "returned"
          /\ (~HasHistory(w) \/ StoredLast(w).kind = "null") =>
                last'.outcome /= "cooldown"]_vars

\* a call 59 minutes after the stored lastAttempt was denied by the cooldown
C1_Witness ==
    /\ last.outcome = "cooldown"
    /\ file.doc[last.workflow].last_attempt.kind = "iso"
    /\ last.at = file.doc[last.workflow].last_attempt.val + 59 * 60

\* C2: a call the guard denies (cooldown or rate limit) returns false, runs
\* no strategy and no gh command, appends nothing, does not save, and
\* leaves the ledger file as it found it.
C2_DenialIsInert ==
    [][\A w \in Jobs :
          (CallStep(w) /\ last'.outcome \in {"cooldown", "rate_limit"}) =>
              /\ last'.result = FALSE
              /\ last'.fix_func = "none"
              /\ last'.gh = <<>>
              /\ ~last'.appended
              /\ ~last'.saved
              /\ file' = file]_vars

\* a non-dry call was denied by the rate limit on a ledger with history
C2_Witness ==
    /\ last.outcome = "rate_limit"
    /\ ~last.dry_run
    /\ Len(file.doc[last.workflow].attempts) >= 3

\* the history the call loads for the job, empty if there is none
AttemptsBefore(w) == IF HasHistory(w) THEN StoredAttempts(w) ELSE <<>>

\* C3: an admitted non-dry call appends exactly one record for the job and
\* saves, whatever the dispatch returned; the record's success is the
\* dispatch result, which is also what the call returns; and a record of a
\* failed dispatch denies a call made less than 60 minutes after it.
C3_FailuresAreRecorded ==
    [][\A w \in Jobs : CallStep(w) =>
          /\ (last'.outcome = "returned" /\ ~last'.dry_run) =>
                /\ last'.appended /\ last'.saved
                /\ file'.state = "ok"
                /\ w \in DOMAIN file'.doc
                /\ Len(file'.doc[w].attempts) = Len(AttemptsBefore(w)) + 1
                /\ SubSeq(file'.doc[w].attempts, 1, Len(AttemptsBefore(w)))
                      = AttemptsBefore(w)
                /\ LET rec == file'.doc[w].attempts[Len(file'.doc[w].attempts)]
                   IN  /\ rec.success = last'.result
                       /\ rec.failure_type = last'.failure_type
                       /\ rec.timestamp = [kind |-> "iso", val |-> now]
          /\ (/\ HasHistory(w)
              /\ Len(StoredAttempts(w)) > 0
              /\ ~StoredAttempts(w)[Len(StoredAttempts(w))].success
              /\ now < StoredAttempts(w)[Len(StoredAttempts(w))].timestamp.val + 60 * 60)
                => last'.outcome = "cooldown"]_vars

\* a call was denied by the cooldown that a failed dispatch started
C3_Witness ==
    /\ last.outcome = "cooldown"
    /\ Len(file.doc[last.workflow].attempts) = 1
    /\ ~file.doc[last.workflow].attempts[1].success
    /\ last.at > file.doc[last.workflow].attempts[1].timestamp.val

\* C4: a dry-run call never changes the ledger file and runs no gh command,
\* for every failure type, whether the guard admits or denies.
C4_DryRunNoOp ==
    [][\A w \in Jobs : (CallStep(w) /\ last'.dry_run) =>
          /\ file' = file
          /\ last'.gh = <<>>]_vars

\* an admitted dry run of a re-run strategy on a ledger that has a record
C4_Witness ==
    /\ last.dry_run
    /\ last.outcome = "returned"
    /\ last.failure_type = "git_conflict"
    /\ file.state = "ok"
    /\ Len(file.doc[last.workflow].attempts) = 1

\* C5: for permission_denied and missing_secret the only gh command a call
\* ever runs is the ticket creation: one ticket when dispatched without
\* dry_run, nothing under dry_run or when denied; never a re-run.
C5_SecurityTicketOnly ==
    last.failure_type \in {"permission_denied", "missing_secret"} =>
        /\ last.gh \in {<<>>, <<"issue_create">>}
        /\ last.dry_run => last.gh = <<>>
        /\ (last.outcome = "returned" /\ ~last.dry_run) =>
              last.gh = <<"issue_create">>

\* a missing_secret call was dispatched for real and created its ticket
C5_Witness ==
    /\ last.failure_type = "missing_secret"
    /\ last.outcome = "returned"
    /\ ~last.dry_run
    /\ last.gh = <<"issue_create">>

\* the action the mapping assigns, as the gh commands of a dispatch
MappedCommands(ft) ==
    CASE ft \in {"permission_denied", "missing_secret",
                 "workflow_config", "unknown"}              -> <<"issue_create">>
      [] ft = "api_quota"                                   -> <<>>
      [] ft \in {"empty_response", "encoding_error",
                 "git_conflict"}                            -> <<"workflow_run">>
      [] OTHER                                              -> <<"issue_create">>

\* C6: every dispatched non-dry call runs the action its failure type maps
\* to: a ticket for permission_denied, missing_secret, workflow_config and
\* unknown, nothing for api_quota (defer), a re-run for empty_response,
\* encoding_error and git_conflict, a ticket for any unlisted type.
C6_CategoryMapping ==
    (last.outcome = "returned" /\ ~last.dry_run) =>
        last.gh = MappedCommands(last.failure_type)

\* an unlisted failure type was dispatched and fell back to a ticket
C6_Witness ==
    /\ last.failure_type \notin Listed
    /\ last.outcome = "returned"
    /\ ~last.dry_run
    /\ last.gh = <<"issue_create">>

\* all histories of the ledger file
Histories == {file.doc[w] : w \in DOMAIN file.doc}

\* C7: after n appends, one per second from time 0, the job's attempts are
\* the last min(n, 50) records appended, in the order they were appended:
\* never more than 50, and after 60 appends exactly records 11..60.
C7_BoundAndFifo ==
    /\ \A h \in Histories : Len(h.attempts) <= 50
    /\ \A w \in Jobs : now > 0 =>
          /\ HasHistory(w)
          /\ Len(StoredAttempts(w)) = (IF now <= 50 THEN now ELSE 50)
          /\ \A i \in 1..Len(StoredAttempts(w)) :
                StoredAttempts(w)[i].timestamp =
                    [kind |-> "iso", val |-> now - Len(StoredAttempts(w)) + i - 1]

\* 60 records were appended: the 11th (stamped 10) is now the oldest
C7_Witness ==
    /\ now = 60
    /\ \E w \in Jobs :
          /\ Len(file.doc[w].attempts) = 50
          /\ file.doc[w].attempts[1].timestamp.val = 10
          /\ file.doc[w].attempts[50].timestamp.val = 59

\* C8: in every ledger state each job's lastAttempt is the timestamp of
\* the last entry of its attempts, and is null exactly when attempts is
\* empty, also once the list has been cut to 50.
C8_LastAttemptIsLastEntry ==
    \A h \in Histories :
        /\ (h.last_attempt.kind = "null") <=> (Len(h.attempts) = 0)
        /\ Len(h.attempts) > 0 =>
              h.last_attempt = h.attempts[Len(h.attempts)].timestamp

\* the list has been cut and lastAttempt is the newest record's timestamp
C8_Witness ==
    /\ now > 50
    /\ \E w \in Jobs :
          /\ HasHistory(w)
          /\ Len(StoredAttempts(w)) = 50
          /\ StoredLast(w).val = now - 1

\* C9: once the cooldown has passed, the call is denied by the rate limit
\* only if at least 3 stored attempts are less than 60 minutes old, and,
\* every stored timestamp being readable, whenever that is so (3 denies, 2
\* admits); the denial reason carries that count and the limit 3.
C9_RateLimitBoundary ==
    [][\A w \in Jobs : (CallStep(w) /\ last'.outcome /= "cooldown") =>
          /\ last'.outcome = "rate_limit" =>
                /\ HasHistory(w)
                /\ RecentCount(w) >= 3
                /\ last'.reason.kind = "rate_limit"
                /\ last'.reason.n = RecentCount(w)
                /\ last'.reason.limit = 3
          /\ (HasHistory(w) /\ AllReadable(w) /\ RecentCount(w) >= 3) =>
                last'.outcome = "rate_limit"
          /\ (HasHistory(w) /\ AllReadable(w) /\ RecentCount(w) < 3) =>
                last'.outcome = "returned"]_vars

\* a call past the cooldown was denied with exactly 3 recent attempts,
\* a failed one among them
C9_Witness ==
    /\ last.outcome = "rate_limit"
    /\ last.reason.n = 3
    /\ last.reason.limit = 3
    /\ file.doc[last.workflow].last_attempt.kind = "iso"
    /\ ~file.doc[last.workflow].attempts[1].success

\* some stored timestamp of the job cannot be read, and no readable
\* last_attempt puts the call inside the cooldown window
UnreadableStamp(w) ==
    /\ HasHistory(w)
    /\ \/ StoredLast(w).kind = "garbage"
       \/ ~AllReadable(w)
    /\ ~(StoredLast(w).kind = "iso" /\ now < StoredLast(w).val + 60 * 60)

\* C10: whenever a stored timestamp of the job (last_attempt or an entry of
\* attempts) cannot be read, the guard admits: the call is dispatched,
\* neither denied nor aborted by an error.
C10_FailOpen ==
    [][\A w \in Jobs : (CallStep(w) /\ UnreadableStamp(w)) =>
          last'.outcome = "returned"]_vars

KeepsHistory(w) ==
    HasHistory(w) =>
        /\ file'.state = "ok"
        /\ w \in DOMAIN file'.doc
        /\ Len(file'.doc[w].attempts) >= Len(StoredAttempts(w))
        /\ SubSeq(file'.doc[w].attempts, 1, Len(StoredAttempts(w)))
              = StoredAttempts(w)

\* C12: a failure while persisting (creating the directory, opening or
\* writing the file) does not propagate: the call still returns, and at
\* most the record of this call is missing from the ledger afterwards.
C12_SaveFailuresSwallowed ==
    [][\A w \in Jobs : CallStep(w) =>
          /\ last'.outcome /= "raised"
          /\ KeepsHistory(w)]_vars

\* the histories that can be read back from the file before and after
ReadBack == IF file.state = "ok" THEN file.doc ELSE <<>>
ReadBackAfter == IF file'.state = "ok" THEN file'.doc ELSE <<>>

\* C13: after every call, also one whose save failed part-way, what the
\* file holds is either the complete mapping it held before or the complete
\* new mapping (the old one plus this call's record), never less.
C13_SaveAllOrNothing ==
    [][\A w \in Jobs : CallStep(w) =>
          \/ ReadBackAfter = ReadBack
          \/ /\ file'.state = "ok"
             /\ w \in DOMAIN file'.doc
             /\ Len(file'.doc[w].attempts) = Len(AttemptsBefore(w)) + 1
             /\ SubSeq(file'.doc[w].attempts, 1, Len(AttemptsBefore(w)))
                   = AttemptsBefore(w)]_vars

\* process p ran to the end, was admitted and was not a dry run
Recorded(p) ==
    /\ procs[p].pc = "done"
    /\ procs[p].outcome = "returned"
    /\ ~procs[p].dry_run

\* the record process p appended is in the ledger file
RecordKept(p) ==
    /\ file.state = "ok"
    /\ procs[p].workflow \in DOMAIN file.doc
    /\ \E i \in 1..Len(file.doc[procs[p].workflow].attempts) :
          LET rec == file.doc[procs[p].workflow].attempts[i]
          IN  /\ rec.timestamp = [kind |-> "iso", val |-> procs[p].at]
              /\ rec.failure_type = procs[p].failure_type
              /\ rec.success = procs[p].result

\* neither process had the job's history in the mapping it read
BothReadBeforeEitherWrote(p, q) ==
    /\ procs[p].workflow \notin DOMAIN procs[p].attempts
    /\ procs[q].workflow \notin DOMAIN procs[q].attempts

\* C14: when two invocations for the same job both read the ledger before
\* either wrote it, and both were admitted and dispatched, the file ends
\* up with one record for the job, not two: the first write is lost.
C14_LostUpdate ==
    \A p \in DOMAIN procs, q \in DOMAIN procs :
        (/\ p /= q
         /\ Recorded(p) /\ Recorded(q)
         /\ procs[p].workflow = procs[q].workflow
         /\ BothReadBeforeEitherWrote(p, q)) =>
            /\ file.state = "ok"
            /\ Len(file.doc[procs[p].workflow].attempts) = 1
            /\ RecordKept(p) \/ RecordKept(q)

\* both ran for the same job with different failure types and were
\* dispatched, and the ledger has the record of only one of them
C14_Witness ==
    \E p \in DOMAIN procs, q \in DOMAIN procs :
        /\ p /= q
        /\ Recorded(p) /\ Recorded(q)
        /\ procs[p].workflow = procs[q].workflow
        /\ procs[p].failure_type /= procs[q].failure_type
        /\ BothReadBeforeEitherWrote(p, q)
        /\ RecordKept(q) /\ ~RecordKept(p)

\* C15: when the invocations are for different jobs (so none for the same
\* job overlap), then once all have finished every admitted non-dry attempt
\* is in the ledger file.
C15_PerJobWriterSuffices ==
    \A p \in DOMAIN procs, q \in DOMAIN procs :
        (/\ p /= q
         /\ procs[p].pc = "done" /\ procs[q].pc = "done"
         /\ procs[p].workflow /= procs[q].workflow) =>
            (Recorded(p) => RecordKept(p))

\* C16: on a ledger with no history for the job, a non-dry empty_response
\* call whose gh command succeeds is admitted, runs the re-run trigger
\* exactly once and returns true, and leaves exactly one record for the job,
\* of type empty_response with success true, with last_attempt equal to
\* that record's timestamp (the time of the call).
C16_FirstAttempt ==
    [][\A w \in Jobs :
          (ApplyFix(w, "empty_response", FALSE, TRUE) /\ ~HasHistory(w)) =>
             /\ last'.outcome = "returned"
             /\ last'.gh = <<"workflow_run">>
             /\ last'.result
             /\ file'.state = "ok"
             /\ w \in DOMAIN file'.doc
             /\ Len(file'.doc[w].attempts) = 1
             /\ file'.doc[w].attempts[1].failure_type = "empty_response"
             /\ file'.doc[w].attempts[1].success
             /\ file'.doc[w].attempts[1].timestamp = [kind |-> "iso", val |-> now]
             /\ file'.doc[w].last_attempt = file'.doc[w].attempts[1].timestamp]_vars

\* the first call for the job was a real empty_response fix that re-ran
\* the workflow, and the ledger has its one record
C16_Witness ==
    /\ last.failure_type = "empty_response"
    /\ ~last.dry_run
    /\ last.outcome = "returned"
    /\ last.result
    /\ last.gh = <<"workflow_run">>
    /\ file.state = "ok"
    /\ Len(file.doc[last.workflow].attempts) = 1
    /\ file.doc[last.workflow].last_attempt = [kind |-> "iso", val |-> last.at]

\* the ledger holds exactly the record of one missing_secret call for w
OneMissingSecretRecord(w) ==
    /\ HasHistory(w)
    /\ Len(StoredAttempts(w)) = 1
    /\ StoredAttempts(w)[1].failure_type = "missing_secret"
    /\ StoredAttempts(w)[1].timestamp.kind = "iso"
    /\ StoredLast(w) = StoredAttempts(w)[1].timestamp

\* C17: of two non-dry missing_secret calls for a job without history made
\* less than 60 minutes apart, the first creates a ticket and records one
\* attempt; the second is denied by the cooldown, creates no ticket, and
\* the job's attempts list still has length 1.
C17_RepeatedAttempt ==
    [][\A w \in Jobs :
          (/\ CallStep(w)
           /\ last'.failure_type = "missing_secret"
           /\ ~last'.dry_run) =>
             /\ ~HasHistory(w) =>
                   /\ last'.outcome = "returned"
                   /\ last'.gh = <<"issue_create">>
                   /\ file'.state = "ok"
                   /\ w \in DOMAIN file'.doc
                   /\ Len(file'.doc[w].attempts) = 1
                   /\ file'.doc[w].attempts[1].failure_type = "missing_secret"
             /\ (/\ OneMissingSecretRecord(w)
                 /\ now < StoredAttempts(w)[1].timestamp.val + 60 * 60) =>
                   /\ last'.outcome = "cooldown"
                   /\ last'.gh = <<>>
                   /\ file' = file
                   /\ Len(file'.doc[w].attempts) = 1]_vars

\* the second missing_secret call, 59 minutes after the first, was denied
C17_Witness ==
    /\ last.failure_type = "missing_secret"
    /\ ~last.dry_run
    /\ last.outcome = "cooldown"
    /\ last.gh = <<>>
    /\ OneMissingSecretRecord(last.workflow)
    /\ last.at = StoredAttempts(last.workflow)[1].timestamp.val + 59 * 60

\* C18: a remediation process that called apply_fix exits 0 exactly when
\* apply_fix returned true, and exits 1 when the guard denied or the
\* dispatch failed.
C18_ExitCode ==
    (last.outcome /= "none" /\ last.failure_type \in DOMAIN FIX_STRATEGIES) =>
        /\ last.exit = 0 <=> (last.outcome = "returned" /\ last.result)
        /\ last.outcome \in {"cooldown", "rate_limit"} => last.exit = 1
        /\ (last.outcome = "returned" /\ ~last.result) => last.exit = 1

\* a dispatched call whose gh command failed ended with status 1
C18_Witness ==
    /\ last.outcome = "returned"
    /\ ~last.dry_run
    /\ ~last.result
    /\ last.gh /= <<>>
    /\ last.exit = 1

\* the classifier has run on the log
Classified == diagnosis /= NoDiagnosis

\* the categories whose pattern matches the log text
Matching(lg) ==
    {FAILURE_PATTERNS[k].type : k \in
        {j \in 1..Len(FAILURE_PATTERNS) :
            re_search(FAILURE_PATTERNS[j].pattern, lg.lines).matched}}

\* the fixed order of the categories
TieBreakOrder ==
    <<"permission_denied", "api_quota", "empty_response", "missing_secret",
      "encoding_error", "workflow_config", "git_conflict">>

\* C19: for a log text that matches the patterns of two or more categories
\* the classifier returns the one that comes first in the order
\* permission_denied, api_quota, empty_response, missing_secret,
\* encoding_error, workflow_config, git_conflict.
C19_TieBreak ==
    (Classified /\ Cardinality(Matching(log)) >= 2) =>
        \E i \in 1..Len(TieBreakOrder) :
            /\ diagnosis.type = TieBreakOrder[i]
            /\ TieBreakOrder[i] \in Matching(log)
            /\ \A j \in 1..(i - 1) : TieBreakOrder[j] \notin Matching(log)

\* a log whose first line is a rejected push and whose second line is a
\* 403 was classified permission_denied
C19_Witness ==
    /\ Classified
    /\ Len(log.lines) = 2
    /\ Matching([kind |-> "str", lines |-> <<log.lines[1]>>]) = {"git_conflict"}
    /\ Matching([kind |-> "str", lines |-> <<log.lines[2]>>]) = {"permission_denied"}
    /\ diagnosis.type = "permission_denied"

\* C20: for None or empty log text the classifier returns unknown with
\* severity medium, fixable false and no matched text; for a non-empty text
\* that matches no pattern it returns unknown with severity high and
\* fixable false.
C20_MissingLogs ==
    Classified =>
        /\ (log.kind = "None" \/ log.lines = <<>>) =>
              /\ diagnosis.type = "unknown"
              /\ diagnosis.severity = "medium"
              /\ ~diagnosis.fixable
              /\ diagnosis.matched_text.is_none
        /\ (log.kind = "str" /\ log.lines /= <<>> /\ Matching(log) = {}) =>
              /\ diagnosis.type = "unknown"
              /\ diagnosis.severity = "high"
              /\ ~diagnosis.fixable

\* the classifier was given None and answered unknown, medium
C20_Witness ==
    /\ Classified
    /\ log.kind = "None"
    /\ diagnosis.type = "unknown"
    /\ diagnosis.severity = "medium"
    /\ diagnosis.matched_text.is_none

\* the first error-introducer phrase met when reading the text from its
\* start, with the rest of its line
FirstPhraseInText(lines) ==
    first_in_text(lines,
        [k \in 1..Len(lines) |->
            leftmost([e \in 1..Len(error_patterns) |->
                         match_line(lines[k], error_patterns[e])])])

\* mt is no text when there is no phrase, and otherwise the first
\* characters, at most 200 of them, of the phrase ph and what follows it
SnippetOf(mt, ph) ==
    IF ~ph.matched THEN mt.is_none
    ELSE /\ ~mt.is_none
         /\ Len(mt.text) <= 200
         /\ Len(mt.text) <= Len(ph.group0)
         /\ mt.text = SubSeq(ph.group0, 1, Len(mt.text))

\* C21: when no category pattern matches, the matched text is null if the
\* log has no error-introducer phrase, and otherwise a snippet of at most
\* 200 characters taken from the first phrase encountered in the log among
\* "Error:", "FATAL:", "failed with", "Exception:".
C21_FallbackSnippet ==
    (Classified /\ log.kind = "str" /\ log.lines /= <<>> /\ Matching(log) = {})
        => SnippetOf(diagnosis.matched_text, FirstPhraseInText(log.lines))

\* the failing runs the run-list collaborator returned for workflow w
FailingRuns(w) ==
    IF sweep.world[w].returncode = 0 /\ sweep.world[w].parsable
    THEN SelectSeq(sweep.world[w].runs,
                   LAMBDA run : run.conclusion \in {"failure", "cancelled",
                                                    "timed_out"})
    ELSE <<>>

\* C22: no step of the sweep changes the ledger file, and the only gh
\* commands it runs are the run list and the log download: never the
\* re-run trigger, never the ticket creation.
C22_SweepReadOnly ==
    [][sweep' /= sweep =>
          /\ file' = file
          /\ \A i \in 1..Len(sweep'.gh) :
                sweep'.gh[i] \in {"run_list", "run_view"}]_vars

\* a sweep found a fixable failure, ran only its two read commands and
\* ended
C22_Witness ==
    /\ sweep.pc = "exited"
    /\ Len(sweep.results) = 1
    /\ sweep.results[1].status = "failing"
    /\ sweep.results[1].fixable_failures = 1
    /\ sweep.gh = <<"run_list", "run_view">>
    /\ file.state = "corrupt"

C24_ExitCodeAsStated ==
    sweep.pc = "exited" =>
        /\ (\A k \in 1..Len(sweep.results) :
               sweep.results[k].status = "healthy") => sweep.exit = 0
        /\ (\E k \in 1..Len(sweep.results) :
               sweep.results[k].status = "failing") => sweep.exit = 1

\* C24, amended: the process exits 1 if any job's report is failing, and
\* also when no --workflow is given and discovery finds no workflow (no
\* job is inspected); otherwise, with at least one job inspected and every
\* report healthy, it exits 0.
C24_ExitCode ==
    sweep.pc = "exited" =>
        /\ (\E k \in 1..Len(sweep.results) :
               sweep.results[k].status = "failing") => sweep.exit = 1
        /\ (sweep.args_workflow = "" /\ sweep.discovered = <<>>) =>
               (sweep.exit = 1 /\ sweep.results = <<>>)
        /\ (/\ Len(sweep.results) >= 1
            /\ \A k \in 1..Len(sweep.results) :
                  sweep.results[k].status = "healthy") => sweep.exit = 0
        /\ sweep.exit \in {0, 1}

\* two jobs were inspected, the second one is failing, and the process
\* ended with status 1
C24_Witness ==
    /\ sweep.pc = "exited"
    /\ Len(sweep.results) = 2
    /\ sweep.results[1].status = "healthy"
    /\ sweep.results[2].status = "failing"
    /\ sweep.exit = 1

\* C25: with a clock that does not step back and every append stamping the
\* record with the current time, the timestamps of each job's attempts
\* list are non-decreasing in list order in every ledger state, also when
\* invocations overlap.
C25_TimestampsMonotone ==
    file.state = "ok" =>
        \A w \in DOMAIN file.doc :
            \A i \in 1..Len(file.doc[w].attempts), j \in 1..Len(file.doc[w].attempts) :
                i < j => file.doc[w].attempts[i].timestamp.val
                            <= file.doc[w].attempts[j].timestamp.val

\* a job has two records, the second stamped an hour or more after the first
C25_Witness ==
    /\ file.state = "ok"
    /\ \E w \in DOMAIN file.doc :
          /\ Len(file.doc[w].attempts) = 2
          /\ file.doc[w].attempts[1].timestamp.val
                < file.doc[w].attempts[2].timestamp.val

\* C26: every apply_fix call ends with a boolean, after at most one gh
\* command and without time passing inside the call, for every failure
\* type: the 120-minute and 10-minute waits are not waited in the process.
C26_NoBlockingWaits ==
    [][\A w \in Jobs : CallStep(w) =>
          /\ last'.outcome \in {"cooldown", "rate_limit", "returned"}
          /\ last'.result \in BOOLEAN
          /\ Len(last'.gh) <= 1
          /\ now' = now]_vars

\* the stored last_attempt is readable and less than 60 minutes old
InCooldown(w) ==
    /\ HasHistory(w)
    /\ StoredLast(w).kind = "iso"
    /\ now < StoredLast(w).val + 60 * 60

\* C27: the cooldown is checked first and the rate limit only once it has
\* passed: a call inside the cooldown window is denied with the cooldown
\* reason, also when 3 or more stored attempts are recent (both guards
\* would deny) and also when a stored attempt's timestamp is unreadable
\* (the rate-limit check is not reached); a rate-limit denial happens only
\* outside the cooldown window.
C27_GuardOrdering ==
    [][\A w \in Jobs : CallStep(w) =>
          /\ InCooldown(w) =>
                /\ last'.outcome = "cooldown"
                /\ last'.reason.kind = "cooldown"
          /\ last'.outcome \in {"rate_limit", "raised"} => ~InCooldown(w)]_vars

\* a call was denied by the cooldown on a ledger holding 3 attempts less
\* than 60 minutes old, which the rate limit would have denied as well
C27_Witness ==
    /\ last.outcome = "cooldown"
    /\ last.reason.kind = "cooldown"
    /\ last.workflow \in DOMAIN file.doc
    /\ Cardinality({i \in 1..Len(file.doc[last.workflow].attempts) :
            /\ file.doc[last.workflow].attempts[i].timestamp.kind = "iso"
            /\ last.at - file.doc[last.workflow].attempts[i].timestamp.val
                  < 60 * 60}) >= 3

\* seconds from the call to the end of the job's cooldown window
Remaining(w) == StoredLast(w).val + 60 * 60 - now

\* the cooldown denied the call and reports n minutes, the floor of the
\* remaining time
FloorOfRemaining(w, n) ==
    /\ 60 * n <= Remaining(w)
    /\ Remaining(w) < 60 * (n + 1)

\* C28 as stated: the hint of a cooldown denial is the floor of the
\* remaining minutes, always within 0..59, or 60 only when now = T, and 0
\* in the last partial minute.
C28_HintAsStated ==
    [][\A w \in Jobs : (CallStep(w) /\ last'.outcome = "cooldown") =>
          /\ FloorOfRemaining(w, last'.reason.n)
          /\ \/ last'.reason.n \in 0..59
             \/ last'.reason.n = 60 /\ now = StoredLast(w).val
          /\ Remaining(w) < 60 => last'.reason.n = 0]_vars

\* C28: the hint of a cooldown denial is the floor of the remaining
\* minutes; when the stored last attempt is not ahead of the clock it is
\* within 0..59, or 60 exactly when now = T, and 0 in the last partial
\* minute; when the stored last attempt is ahead of the clock it is 60 or
\* more.
C28_Hint ==
    [][\A w \in Jobs : (CallStep(w) /\ last'.outcome = "cooldown") =>
          /\ FloorOfRemaining(w, last'.reason.n)
          /\ now >= StoredLast(w).val =>
                /\ last'.reason.n \in 0..60
                /\ last'.reason.n = 60 <=> now = StoredLast(w).val
          /\ Remaining(w) < 60 => last'.reason.n = 0
          /\ now < StoredLast(w).val => last'.reason.n >= 60]_vars

\* a call 30 seconds before the end of the window was denied with a hint
\* of 0 minutes
C28_Witness ==
    /\ last.outcome = "cooldown"
    /\ last.reason.n = 0
    /\ file.doc[last.workflow].last_attempt.kind = "iso"
    /\ last.at = file.doc[last.workflow].last_attempt.val + 60 * 60 - 30

MetadataOfEntry(k) ==
    /\ diagnosis.severity = FAILURE_PATTERNS[k].severity
    /\ diagnosis.fixable = FAILURE_PATTERNS[k].fixable
    /\ diagnosis.description = FAILURE_PATTERNS[k].description

\* C30 as stated: for every log text the metadata of the diagnosis is the
\* table entry of the returned category.
C30_MetadataAsStated ==
    Classified =>
        \E k \in 1..Len(FAILURE_PATTERNS) :
            /\ FAILURE_PATTERNS[k].type = diagnosis.type
            /\ MetadataOfEntry(k)

\* C30: a diagnosis of one of the seven categories of the table carries
\* exactly that entry's severity, fixable flag and description; the only
\* other category returned is unknown, which has no entry: it is never
\* fixable and carries severity medium with the logs-unavailable
\* description for a None or empty text, and severity high with the
\* requires-human-review description otherwise.
C30_Metadata ==
    Classified =>
        /\ diagnosis.severity \in {"low", "medium", "high"}
        /\ \A k \in 1..Len(FAILURE_PATTERNS) :
              FAILURE_PATTERNS[k].type = diagnosis.type => MetadataOfEntry(k)
        /\ (\A k \in 1..Len(FAILURE_PATTERNS) :
                FAILURE_PATTERNS[k].type /= diagnosis.type) =>
              /\ diagnosis.type = "unknown"
              /\ ~diagnosis.fixable
              /\ IF log.kind = "None" \/ log.lines = <<>>
                 THEN /\ diagnosis.severity = "medium"
                      /\ diagnosis.description =
                            "Could not retrieve logs to diagnose failure"
                 ELSE /\ diagnosis.severity = "high"
                      /\ diagnosis.description =
                            "Unknown failure - requires human review"

\* a two-line log was classified api_quota and carries that entry's
\* medium severity and fixable flag
C30_Witness ==
    /\ Classified
    /\ Len(log.lines) = 2
    /\ diagnosis.type = "api_quota"
    /\ diagnosis.severity = "medium"
    /\ diagnosis.fixable
    /\ diagnosis.description = "Gemini API quota exhausted or rate limited"

\* the cooldown check admits the job on the ledger as it is now
CooldownPasses(w) == check_cooldown(w, load_fix_attempts(file), now).can_fix

\* no two records of the job are less than 60 minutes apart
SpacedByAnHour(w) ==
    \A i, j \in 1..Len(StoredAttempts(w)) :
        i < j => StoredAttempts(w)[j].timestamp.val
                   - StoredAttempts(w)[i].timestamp.val >= 60 * 60

\* C31: from an empty ledger, with invocations one after the other and a
\* clock that does not step back, whenever the cooldown check passes the
\* job has no attempt less than 60 minutes old, no call is ever denied by
\* the rate limit, and no two records of a job lie in one trailing
\* 60-minute window.
C31_RateLimitUnreachable ==
    /\ last.outcome /= "rate_limit"
    /\ \A w \in Jobs : HasHistory(w) =>
          /\ AllReadable(w)
          /\ CooldownPasses(w) => RecentCount(w) = 0
          /\ SpacedByAnHour(w)

\* the third recorded attempt of the job was admitted exactly 60 minutes
\* after the second, with the ledger holding all three
C31_Witness ==
    /\ last.outcome = "returned"
    /\ ~last.dry_run
    /\ HasHistory(last.workflow)
    /\ Len(StoredAttempts(last.workflow)) = 3
    /\ StoredAttempts(last.workflow)[3].timestamp.val = last.at
    /\ StoredAttempts(last.workflow)[2].timestamp.val = last.at - 60 * 60

\* C32: with invocations one after the other, a clock that does not step
\* back and every save succeeding, each real (non-dry) dispatch for a job is
\* recorded at the time of the call and comes at least 60 minutes after
\* the job's previous record, that is after the previous real dispatch;
\* so consecutive records of the job are at least 60 minutes apart.
C32_MinimumSpacing ==
    [][\A w \in Jobs :
          (CallStep(w) /\ last'.outcome = "returned" /\ ~last'.dry_run) =>
             /\ (HasHistory(w) /\ Len(StoredAttempts(w)) > 0) =>
                   now - StoredAttempts(w)[Len(StoredAttempts(w))].timestamp.val
                     >= 60 * 60
             /\ file'.state = "ok"
             /\ w \in DOMAIN file'.doc
             /\ LET a == file'.doc[w].attempts
                IN  /\ Len(a) = (IF HasHistory(w) THEN Len(StoredAttempts(w)) ELSE 0) + 1
                    /\ a[Len(a)].timestamp = [kind |-> "iso", val |-> now]
                    /\ \A i \in 1..(Len(a) - 1) :
                          a[i + 1].timestamp.val - a[i].timestamp.val >= 60 * 60]_vars

\* a real dispatch that failed was followed, exactly 60 minutes later, by
\* the job's next real dispatch, and the ledger holds both
C32_Witness ==
    /\ last.outcome = "returned"
    /\ ~last.dry_run
    /\ HasHistory(last.workflow)
    /\ Len(StoredAttempts(last.workflow)) = 2
    /\ ~StoredAttempts(last.workflow)[1].success
    /\ StoredAttempts(last.workflow)[2].timestamp.val = last.at
    /\ StoredAttempts(last.workflow)[1].timestamp.val = last.at - 60 * 60

\* the failure type of the job's latest record
LatestType(w) == StoredAttempts(w)[Len(StoredAttempts(w))].failure_type

\* C33: the cooldown is keyed by the job alone: after a recorded attempt
\* of any failure type for the job (a ticket for missing_secret and an
\* api_quota deferral included), a call for the job with any other failure
\* type is denied by the cooldown while less than 60 minutes have passed,
\* and is no longer denied by it from 60 minutes on.
C33_CooldownPerJob ==
    [][\A w \in Jobs :
          (/\ CallStep(w)
           /\ HasHistory(w)
           /\ Len(StoredAttempts(w)) > 0
           /\ StoredLast(w).kind = "iso"
           /\ LatestType(w) /= last'.failure_type) =>
             /\ now < StoredLast(w).val + 60 * 60 =>
                   /\ last'.outcome = "cooldown"
                   /\ ~last'.result
                   /\ last'.gh = <<>>
             /\ now >= StoredLast(w).val + 60 * 60 =>
                   last'.outcome /= "cooldown"]_vars

\* an empty_response call was denied by the cooldown that a missing_secret
\* ticket, the job's only record, had started 59 minutes earlier
C33_Witness ==
    /\ last.outcome = "cooldown"
    /\ last.failure_type = "empty_response"
    /\ HasHistory(last.workflow)
    /\ Len(StoredAttempts(last.workflow)) = 1
    /\ StoredAttempts(last.workflow)[1].failure_type = "missing_secret"
    /\ StoredAttempts(last.workflow)[1].action = "fix_missing_secret"
    /\ last.at = StoredLast(last.workflow).val + 59 * 60

\* the ledger with every workflow but w removed
OwnOnly(f, w) ==
    [state |-> f.state, doc |-> [x \in DOMAIN f.doc \cap {w} |-> f.doc[x]]]

\* C34: the guard's decision for a job depends on that job's history and
\* the clock only: the outcome and the denial reason of a call are those
\* the same call gets on the ledger with every other job removed (so two
\* ledgers that agree on the job's history give the same decision), and a
\* job without history is admitted whatever the ledger holds for others.
C34_PerJobIsolation ==
    [][\A w \in AllJobs : CallStep(w) =>
          /\ \A ok \in BOOLEAN :
                LET alone == apply_fix(w, last'.failure_type, last'.dry_run, ok,
                                       OwnOnly(file, w), now)
                IN  /\ last'.outcome = alone.outcome
                    /\ last'.reason = alone.reason
          /\ ~HasHistory(w) => last'.outcome = "returned"]_vars

\* a call for a job without history was admitted while the ledger held
\* three attempts of the other job from the last hour, the latest of them
\* inside its cooldown
C34_Witness ==
    /\ last.outcome = "returned"
    /\ last.dry_run
    /\ last.workflow \in Jobs
    /\ last.workflow \notin DOMAIN file.doc
    /\ OtherJob \in DOMAIN file.doc
    /\ Len(file.doc[OtherJob].attempts) = 3
    /\ ~check_cooldown(OtherJob, file.doc, last.at).can_fix
    /\ ~check_rate_limit(OtherJob, file.doc, last.at).can_fix

\* C35: an append for a job leaves the entry (attempts and last_attempt) of
\* every other job of the mapping as it was and adds no other job; the
\* job's own list becomes the old list with one record added at the end,
\* cut from the front to the last 50.
C35_AppendFrame ==
    [][\A w \in Jobs : now' = now + 1 =>
          LET before == load_fix_attempts(file)
              old == IF w \in DOMAIN before THEN before[w].attempts ELSE <<>>
              new == file'.doc[w].attempts
          IN  /\ file'.state = "ok"
              /\ DOMAIN file'.doc = DOMAIN before \cup {w}
              /\ \A x \in DOMAIN before \ {w} : file'.doc[x] = before[x]
              /\ Len(new) = (IF Len(old) < 50 THEN Len(old) + 1 ELSE 50)
              /\ new[Len(new)].timestamp = [kind |-> "iso", val |-> now]
              /\ \A i \in 1..(Len(new) - 1) :
                    new[i] = old[Len(old) - (Len(new) - 1) + i]]_vars

\* 60 records were appended for the job, its list was cut to 50, and the
\* other workflow's entry is the one the file started with
C35_Witness ==
    /\ now = 60
    /\ OtherJob \in DOMAIN file.doc
    /\ file.doc[OtherJob] \in OtherHistories
    /\ \E w \in Jobs :
          /\ w \in DOMAIN file.doc
          /\ Len(file.doc[w].attempts) = 50
          /\ file.doc[w].attempts[1].timestamp.val = 10

\* C36: a call runs at most one gh command; an admitted real (non-dry)
\* call runs exactly the one collaborator of its strategy, once: the ticket
\* creation for fix_permission_denied, fix_missing_secret and fix_unknown,
\* the re-run trigger for fix_empty_response, fix_encoding_error and
\* fix_git_conflict, none for fix_api_quota; and the record it then
\* appends carries the strategy's name and the collaborator's result, so
\* the collaborator ran before the attempt was recorded.
C36_OneCollaborator ==
    [][\A w \in Jobs : CallStep(w) =>
          /\ Len(last'.gh) <= 1
          /\ \A i \in 1..Len(last'.gh) :
                last'.gh[i] \in {"issue_create", "workflow_run"}
          /\ (last'.outcome = "returned" /\ ~last'.dry_run) =>
                /\ last'.fix_func \in {"fix_permission_denied",
                                       "fix_missing_secret", "fix_unknown"}
                      <=> last'.gh = <<"issue_create">>
                /\ last'.fix_func \in {"fix_empty_response",
                                       "fix_encoding_error", "fix_git_conflict"}
                      <=> last'.gh = <<"workflow_run">>
                /\ last'.fix_func = "fix_api_quota" <=> last'.gh = <<>>
                /\ file'.state = "ok"
                /\ w \in DOMAIN file'.doc
                /\ LET a == file'.doc[w].attempts
                   IN  /\ Len(a) >= 1
                       /\ a[Len(a)].action = last'.fix_func
                       /\ a[Len(a)].success = last'.result
                       /\ a[Len(a)].timestamp = [kind |-> "iso", val |-> now]]_vars

\* a real git_conflict fix ran the re-run trigger once, the trigger
\* failed, and the record of the attempt says so
C36_Witness ==
    /\ last.outcome = "returned"
    /\ ~last.dry_run
    /\ last.fix_func = "fix_git_conflict"
    /\ last.gh = <<"workflow_run">>
    /\ ~last.result
    /\ HasHistory(last.workflow)
    /\ LET a == StoredAttempts(last.workflow)
       IN  /\ a[Len(a)].action = "fix_git_conflict"
           /\ ~a[Len(a)].success
           /\ a[Len(a)].timestamp.val = last.at

\* what the two guards answer for the job at time t on the ledger file f
GuardDecision(w, f, t) ==
    <<check_cooldown(w, load_fix_attempts(f), t),
      check_rate_limit(w, load_fix_attempts(f), t)>>

\* C37: a dry run goes through the guard like any call: inside the
\* cooldown window it is denied and returns false; once admitted it returns
\* true for every failure type and runs no gh command; it leaves the
\* ledger file as it found it, so the guard's decision for the job at the
\* time of the call and 59, 60 and 61 minutes later is what it was before.
C37_DryRunLeavesNoTrace ==
    [][\A w \in Jobs : (CallStep(w) /\ last'.dry_run) =>
          /\ InCooldown(w) =>
                /\ last'.outcome = "cooldown"
                /\ ~last'.result
          /\ last'.outcome = "returned" =>
                /\ last'.result
                /\ last'.gh = <<>>
          /\ ~last'.appended /\ ~last'.saved
          /\ file' = file
          /\ \A m \in {0} \cup ClockSteps :
                GuardDecision(w, file', now + m * 60)
                  = GuardDecision(w, file, now + m * 60)]_vars

\* a dry run for a job whose only record is 60 minutes old was admitted
\* and returned true, and the record is still the job's only one
C37_Witness ==
    /\ last.dry_run
    /\ last.outcome = "returned"
    /\ last.result
    /\ HasHistory(last.workflow)
    /\ Len(StoredAttempts(last.workflow)) = 1
    /\ StoredLast(last.workflow).val = last.at - 60 * 60

\* the gh commands a real (non-dry) dispatch of the failure type runs
DispatchOf(failure_type) == CallFix(GetStrategy(failure_type), FALSE, TRUE).gh

\* C38: the classifier and the dispatcher agree on fixability: for every
\* entry of the classifier's table and for every diagnosis returned (the
\* unknown fallbacks included), fixable is false exactly when the
\* dispatcher's strategy for the category creates a ticket, and a fixable
\* category is dispatched to a deferral or a re-run.
C38_FixabilityAgrees ==
    /\ \A k \in 1..Len(FAILURE_PATTERNS) :
          /\ ~FAILURE_PATTERNS[k].fixable
                <=> DispatchOf(FAILURE_PATTERNS[k].type) = <<"issue_create">>
          /\ FAILURE_PATTERNS[k].fixable
                => DispatchOf(FAILURE_PATTERNS[k].type) \in {<<>>, <<"workflow_run">>}
    /\ Classified =>
          /\ ~diagnosis.fixable <=> DispatchOf(diagnosis.type) = <<"issue_create">>
          /\ diagnosis.fixable => DispatchOf(diagnosis.type) \in {<<>>, <<"workflow_run">>}
          /\ diagnosis.type \in
                {"permission_denied", "missing_secret", "workflow_config", "unknown"}
                <=> ~diagnosis.fixable
          /\ diagnosis.type \in
                {"api_quota", "empty_response", "encoding_error", "git_conflict"}
                <=> diagnosis.fixable

\* a log was classified missing_secret, not fixable, and the dispatcher
\* answers missing_secret with a ticket
C38_Witness ==
    /\ Classified
    /\ diagnosis.type = "missing_secret"
    /\ ~diagnosis.fixable
    /\ GetStrategy(diagnosis.type) = "fix_missing_secret"
    /\ DispatchOf(diagnosis.type) = <<"issue_create">>

\* C39: when the run list fails or its output cannot be parsed, the job's
\* report is healthy with zero failures; a report is failing only if the
\* run list was fetched and holds a run whose conclusion is failure,
\* cancelled or timed_out, and every diagnosed run is such a run; a
\* diagnosed run whose log download failed is diagnosed unknown, severity
\* medium, not fixable, without matched text.
C39_SweepOnCollaboratorFailure ==
    \A k \in 1..Len(sweep.results) :
        LET r == sweep.results[k]
            listing == sweep.world[sweep.workflows[k]]
        IN  /\ (listing.returncode /= 0 \/ ~listing.parsable) =>
                  /\ r.status = "healthy"
                  /\ r.recent_failures = 0
                  /\ r.failures = <<>>
            /\ r.status = "failing" =>
                  /\ listing.returncode = 0
                  /\ listing.parsable
                  /\ \E i \in 1..Len(listing.runs) :
                        listing.runs[i].conclusion
                          \in {"failure", "cancelled", "timed_out"}
            /\ \A i \in 1..Len(r.failures) :
                  LET run == listing.runs[r.failures[i].run_id]
                  IN  /\ run.conclusion \in {"failure", "cancelled", "timed_out"}
                      /\ run.view.returncode /= 0 =>
                            /\ r.failures[i].diagnosis.type = "unknown"
                            /\ r.failures[i].diagnosis.severity = "medium"
                            /\ ~r.failures[i].diagnosis.fixable
                            /\ r.failures[i].diagnosis.matched_text.is_none

\* a sweep of two workflows: the first has a timed-out run whose log could
\* not be fetched and is reported failing with an unknown, medium
\* diagnosis; the run list of the second failed and it is reported healthy
C39_Witness ==
    /\ Len(sweep.results) = 2
    /\ sweep.results[1].status = "failing"
    /\ sweep.world[sweep.workflows[1]].runs[
          sweep.results[1].failures[1].run_id].conclusion = "timed_out"
    /\ sweep.world[sweep.workflows[1]].runs[
          sweep.results[1].failures[1].run_id].view.returncode /= 0
    /\ sweep.results[1].failures[1].diagnosis.type = "unknown"
    /\ sweep.results[1].failures[1].diagnosis.severity = "medium"
    /\ sweep.world[sweep.workflows[2]].returncode /= 0
    /\ sweep.results[2].status = "healthy"
    /\ sweep.results[2].recent_failures = 0

====
